---- MODULE Spec2Model ----
(***************************************************************************)
(* Model of llm-usage's provider aggregation core:                         *)
(*   - FetchAllUsage (internal/usage/providers.go): the goroutine fan-out  *)
(*     with a WaitGroup, a mutex around each slot write and the final      *)
(*     filter;                                                             *)
(*   - GetProviders and the per-vendor resolution routines, on top of the  *)
(*     credential documents of internal/credentials;                       *)
(*   - the credential files: SaveProvider, ListAccounts and                *)
(*     MigrateFromClaudeCLI of the credentials Manager;                    *)
(*   - the file cache (internal/cache) and the subscription lookup of the  *)
(*     Kimi and MiniMax adapters;                                          *)
(*   - the normalisation of the vendor responses into usage windows,       *)
(*     UsageStats.MaxUtilization / GetClass and the status bar output.     *)
(***************************************************************************)
EXTENDS Integers, Sequences, FiniteSets, TLC

\* ------------------------------------------------------------------------
\* Bounds
\* ------------------------------------------------------------------------

\* Largest number of provider instances handed to FetchAllUsage.
MaxInstances == 3

\* Largest number of credentials.Manager calls in one run.
MaxOps == 2

\* ------------------------------------------------------------------------
\* Values of package provider
\* ------------------------------------------------------------------------

\* The display name an adapter reports for its id (Name()).
ProviderDisplayName(id) ==
    CASE id = "kimi"    -> "Kimi"
      [] id = "minimax" -> "MiniMax"
      [] OTHER          -> "Provider"

\* The zero value of provider.Usage: what make([]provider.Usage, n) puts in
\* every slot.  Error is <<>> for nil, Extra is a set of <<key, value>> pairs.
ZeroUsage ==
    [Provider |-> "", Windows |-> <<>>, Extra |-> {}, Error |-> <<>>]

\* NewUsageError(providerID, providerName, err).
NewUsageErrorNoID(providerID, providerName, err) ==
    [Provider |-> "", Windows |-> <<>>, Extra |-> {},
     Error |-> <<providerName, err>>]

NewUsageError(providerID, providerName, err) ==
    [Provider |-> providerID, Windows |-> <<>>, Extra |-> {},
     Error |-> <<providerName, err>>]

\* The Usage a successful GetUsage of the adapter with this id returns for
\* the vendor response resp (a sequence of windows); sub tells whether the
\* best-effort subscription annex was attached.
SuccessUsage(id, resp, sub) ==
    [Provider |-> id, Windows |-> resp,
     Extra |-> IF sub THEN {<<"subscription", "plan">>} ELSE {},
     Error |-> <<>>]

\* usage.Extra["account"] = prov.AccountName, when the name is not empty.
InjectAccount(usage, accountName) ==
    IF accountName # ""
    THEN [usage EXCEPT !.Extra =
            {kv \in usage.Extra : kv[1] # "account"}
                \cup {<<"account", accountName>>}]
    ELSE usage

\* ------------------------------------------------------------------------
\* FetchAllUsage
\* ------------------------------------------------------------------------

\* The adapters FetchAllUsage is run on: the Kimi and MiniMax adapters, and
\* an implementation of the Provider interface whose ID() is empty.  sub
\* tells whether the adapter's subscription lookup succeeds.
InstancePool ==
    { [id |-> "kimi",    account |-> "work",    sub |-> TRUE],
      [id |-> "minimax", account |-> "default", sub |-> FALSE],
      [id |-> "",        account |-> "",        sub |-> FALSE] }

RECURSIVE SeqsUpTo(_, _)
SeqsUpTo(S, n) ==
    IF n = 0 THEN { <<>> }
    ELSE LET prev == SeqsUpTo(S, n - 1)
         IN  prev \cup { Append(s, x) : s \in {t \in prev : Len(t) = n - 1},
                                        x \in S }

VARIABLES
    providers,   \* the argument of FetchAllUsage: sequence of instances
    slots,       \* stats.Providers before the filter
    mu,          \* holder of the mutex (a task index), 0 when free
    wg,          \* the WaitGroup counter
    loopi,       \* next index the launch loop handles
    mainpc,      \* position of the calling goroutine
    pc,          \* position of each task
    usage,       \* each task's local usage
    errv,        \* each task's local err
    outcome,     \* what GetUsage returned to each task: "none", "ok", "err"
    writers,     \* per slot, the tasks that wrote it, in order
    outOfOrder,  \* some task wrote before a task of lower index did
    result       \* stats.Providers as returned

fetchVars == <<providers, slots, mu, wg, loopi, mainpc, pc, usage, errv,
               outcome, writers, outOfOrder, result>>

N == Len(providers)

Tasks == 1 .. N

\* The vendor response to the call of the task with this index.
Response(idx) == << [Label |-> idx, Utilization |-> 0] >>

FetchInit ==
    /\ providers \in SeqsUpTo(InstancePool, MaxInstances)
    /\ slots = [i \in 1 .. Len(providers) |-> ZeroUsage]
    /\ mu = 0
    /\ wg = 0
    /\ loopi = 1
    /\ mainpc = "loop"
    /\ pc = [i \in 1 .. Len(providers) |-> "idle"]
    /\ usage = [i \in 1 .. Len(providers) |-> ZeroUsage]
    /\ errv = [i \in 1 .. Len(providers) |-> 0]
    /\ outcome = [i \in 1 .. Len(providers) |-> "none"]
    /\ writers = [i \in 1 .. Len(providers) |-> <<>>]
    /\ outOfOrder = FALSE
    /\ result = <<>>

\* for i, p := range providers { wg.Add(1); go func(idx, prov) {...}(i, p) }
Launch(i) ==
    /\ mainpc = "loop"
    /\ i = loopi
    /\ i <= N
    /\ wg' = wg + 1
    /\ pc' = [pc EXCEPT ![i] = "GetUsage"]
    /\ loopi' = i + 1
    /\ UNCHANGED <<providers, slots, mu, mainpc, usage, errv, outcome,
                   writers, outOfOrder, result>>

\* usage, err := prov.GetUsage() returns a usage.
GetUsageOk(idx) ==
    /\ pc[idx] = "GetUsage"
    /\ usage' = [usage EXCEPT ![idx] =
                   SuccessUsage(providers[idx].id, Response(idx),
                                providers[idx].sub)]
    /\ outcome' = [outcome EXCEPT ![idx] = "ok"]
    /\ pc' = [pc EXCEPT ![idx] = "inject"]
    /\ UNCHANGED <<providers, slots, mu, wg, loopi, mainpc, errv, writers,
                   outOfOrder, result>>

\* usage, err := prov.GetUsage() returns an error.
GetUsageErr(idx) ==
    /\ pc[idx] = "GetUsage"
    /\ errv' = [errv EXCEPT ![idx] = idx]
    /\ outcome' = [outcome EXCEPT ![idx] = "err"]
    /\ pc' = [pc EXCEPT ![idx] = "errLock"]
    /\ UNCHANGED <<providers, slots, mu, wg, loopi, mainpc, usage, writers,
                   outOfOrder, result>>

\* if prov.AccountName != "" { ...; usage.Extra["account"] = ... }
Inject(idx) ==
    /\ pc[idx] = "inject"
    /\ usage' = [usage EXCEPT ![idx] =
                   InjectAccount(usage[idx], providers[idx].account)]
    /\ pc' = [pc EXCEPT ![idx] = "okLock"]
    /\ UNCHANGED <<providers, slots, mu, wg, loopi, mainpc, errv, outcome,
                   writers, outOfOrder, result>>

\* mu.Lock(), on either path.
Lock(idx) ==
    /\ pc[idx] \in {"errLock", "okLock"}
    /\ mu = 0
    /\ mu' = idx
    /\ pc' = [pc EXCEPT ![idx] =
                IF pc[idx] = "errLock" THEN "errWrite" ELSE "okWrite"]
    /\ UNCHANGED <<providers, slots, wg, loopi, mainpc, usage, errv, outcome,
                   writers, outOfOrder, result>>

\* The slot a task writes: its own index (w is the write log so far).
SlotOfCompletion(idx, w) ==
    1 + Cardinality({s \in DOMAIN w : w[s] # <<>>})

SlotOf(idx, w) == idx

\* stats.Providers[idx] = *provider.NewUsageError(prov.ID(), prov.Name(), err)
WriteErr(idx) ==
    /\ pc[idx] = "errWrite"
    /\ LET s == SlotOf(idx, writers)
       IN  /\ slots' = [slots EXCEPT ![s] =
                          NewUsageError(providers[idx].id,
                                        ProviderDisplayName(providers[idx].id),
                                        errv[idx])]
           /\ writers' = [writers EXCEPT ![s] = Append(@, idx)]
    /\ outOfOrder' = (outOfOrder \/ \E j \in 1 .. idx - 1 : writers[j] = <<>>)
    /\ pc' = [pc EXCEPT ![idx] = "unlock"]
    /\ UNCHANGED <<providers, mu, wg, loopi, mainpc, usage, errv, outcome,
                   result>>

\* stats.Providers[idx] = *usage
WriteOk(idx) ==
    /\ pc[idx] = "okWrite"
    /\ LET s == SlotOf(idx, writers)
       IN  /\ slots' = [slots EXCEPT ![s] = usage[idx]]
           /\ writers' = [writers EXCEPT ![s] = Append(@, idx)]
    /\ outOfOrder' = (outOfOrder \/ \E j \in 1 .. idx - 1 : writers[j] = <<>>)
    /\ pc' = [pc EXCEPT ![idx] = "unlock"]
    /\ UNCHANGED <<providers, mu, wg, loopi, mainpc, usage, errv, outcome,
                   result>>

\* mu.Unlock()
UnlockKeepsMutex(idx) ==
    /\ pc[idx] = "unlock"
    /\ pc' = [pc EXCEPT ![idx] = "wgDone"]
    /\ UNCHANGED <<providers, slots, mu, wg, loopi, mainpc, usage, errv,
                   outcome, writers, outOfOrder, result>>

Unlock(idx) ==
    /\ pc[idx] = "unlock"
    /\ mu' = 0
    /\ pc' = [pc EXCEPT ![idx] = "wgDone"]
    /\ UNCHANGED <<providers, slots, wg, loopi, mainpc, usage, errv, outcome,
                   writers, outOfOrder, result>>

\* defer wg.Done()
Done(idx) ==
    /\ pc[idx] = "wgDone"
    /\ wg' = wg - 1
    /\ pc' = [pc EXCEPT ![idx] = "done"]
    /\ UNCHANGED <<providers, slots, mu, loopi, mainpc, usage, errv, outcome,
                   writers, outOfOrder, result>>

\* wg.Wait() returns when the counter is zero.
WaitReturnsEarly(counter) == TRUE

WaitReturns(counter) == counter = 0

Wait ==
    /\ mainpc = "loop"
    /\ loopi > N
    /\ WaitReturns(wg)
    /\ mainpc' = "filter"
    /\ UNCHANGED <<providers, slots, mu, wg, loopi, pc, usage, errv, outcome,
                   writers, outOfOrder, result>>

\* The filter loop: keeps the slots whose Provider is not empty, in order.
FilterKeepsAll(s) == s

Filter(s) == SelectSeq(s, LAMBDA p : p.Provider # "")

\* stats.Providers = filtered; return stats
FilterAndReturn ==
    /\ mainpc = "filter"
    /\ result' = Filter(slots)
    /\ mainpc' = "returned"
    /\ UNCHANGED <<providers, slots, mu, wg, loopi, pc, usage, errv, outcome,
                   writers, outOfOrder>>

FetchNext ==
    \/ \E i \in Tasks : Launch(i)
    \/ \E i \in Tasks : GetUsageOk(i)
    \/ \E i \in Tasks : GetUsageErr(i)
    \/ \E i \in Tasks : Inject(i)
    \/ \E i \in Tasks : Lock(i)
    \/ \E i \in Tasks : WriteErr(i)
    \/ \E i \in Tasks : WriteOk(i)
    \/ \E i \in Tasks : Unlock(i)
    \/ \E i \in Tasks : Done(i)
    \/ Wait
    \/ FilterAndReturn

\* ------------------------------------------------------------------------
\* Credential documents (package credentials)
\* ------------------------------------------------------------------------

\* The account names used in stored documents.
AccountNames == {"default", "work"}

\* The orders in which the Go runtime may iterate over an accounts map.
MapOrders == { <<"default", "work">>, <<"work", "default">> }

\* for name := range m: the keys of m in the iteration order ord.
RangeOrder(m, ord) == SelectSeq(ord, LAMBDA n : n \in DOMAIN m)

\* A nil *KimiAccount.
NilKimiAccount == [null |-> TRUE, APIKey |-> ""]

\* KimiCredentials.GetAccount(accountName).
KimiGetAccount(k, accountName, ord) ==
    LET legacy == IF k.APIKey # ""
                  THEN [null |-> FALSE, APIKey |-> k.APIKey]
                  ELSE NilKimiAccount
    IN  IF ~k.AccountsNil
        THEN IF accountName = ""
             THEN IF "default" \in DOMAIN k.Accounts
                  THEN k.Accounts["default"]
                  ELSE IF DOMAIN k.Accounts # {}
                  THEN k.Accounts[RangeOrder(k.Accounts, ord)[1]]
                  ELSE legacy
             ELSE IF accountName \in DOMAIN k.Accounts
                  THEN k.Accounts[accountName]
                  ELSE legacy
        ELSE legacy

\* KimiCredentials.ListAccounts().
KimiListAccounts(k, ord) ==
    IF ~k.AccountsNil THEN RangeOrder(k.Accounts, ord)
    ELSE IF k.APIKey # "" THEN <<"default">>
    ELSE <<>>

\* The loop of KimiCredentials.Validate over the accounts, in iteration
\* order: reading a field of a nil account panics.
RECURSIVE KimiValidateAccounts(_, _)
KimiValidateAccounts(accounts, names) ==
    IF names = <<>> THEN "ok"
    ELSE LET acc == accounts[Head(names)]
         IN  IF acc.null THEN "panic"
             ELSE IF acc.APIKey = "" THEN "invalid"
             ELSE KimiValidateAccounts(accounts, Tail(names))

\* KimiCredentials.Validate(): "ok", "invalid" (an error) or "panic".
KimiValidate(k, ord) ==
    IF ~k.AccountsNil /\ DOMAIN k.Accounts # {}
    THEN KimiValidateAccounts(k.Accounts, RangeOrder(k.Accounts, ord))
    ELSE IF k.APIKey = "" THEN "invalid" ELSE "ok"

\* A nil *ZAiAccount.
NilZAiAccount == [null |-> TRUE, APIKey |-> ""]

\* ZAiCredentials.GetAccount(accountName).
ZAiGetAccount(z, accountName, ord) ==
    LET legacy == IF z.APIKey # ""
                  THEN [null |-> FALSE, APIKey |-> z.APIKey]
                  ELSE NilZAiAccount
    IN  IF ~z.AccountsNil
        THEN IF accountName = ""
             THEN IF "default" \in DOMAIN z.Accounts
                  THEN z.Accounts["default"]
                  ELSE IF DOMAIN z.Accounts # {}
                  THEN z.Accounts[RangeOrder(z.Accounts, ord)[1]]
                  ELSE legacy
             ELSE IF accountName \in DOMAIN z.Accounts
                  THEN z.Accounts[accountName]
                  ELSE legacy
        ELSE legacy

\* ZAiCredentials.ListAccounts().
ZAiListAccounts(z, ord) ==
    IF ~z.AccountsNil THEN RangeOrder(z.Accounts, ord)
    ELSE IF z.APIKey # "" THEN <<"default">>
    ELSE <<>>

\* The loop of ZAiCredentials.Validate over the accounts, in iteration
\* order: reading a field of a nil account panics.
RECURSIVE ZAiValidateAccounts(_, _)
ZAiValidateAccounts(accounts, names) ==
    IF names = <<>> THEN "ok"
    ELSE LET acc == accounts[Head(names)]
         IN  IF acc.null THEN "panic"
             ELSE IF acc.APIKey = "" THEN "invalid"
             ELSE ZAiValidateAccounts(accounts, Tail(names))

\* ZAiCredentials.Validate(): "ok", "invalid" (an error) or "panic".
ZAiValidate(z, ord) ==
    IF ~z.AccountsNil /\ DOMAIN z.Accounts # {}
    THEN ZAiValidateAccounts(z.Accounts, RangeOrder(z.Accounts, ord))
    ELSE IF z.APIKey = "" THEN "invalid" ELSE "ok"

\* A nil *MiniMaxAccount.
NilMiniMaxAccount == [null |-> TRUE, Cookie |-> "", GroupID |-> ""]

\* MiniMaxCredentials.GetAccount(accountName).
MiniMaxGetAccount(m, accountName, ord) ==
    LET legacy == IF m.Cookie # ""
                  THEN [null |-> FALSE, Cookie |-> m.Cookie,
                        GroupID |-> m.GroupID]
                  ELSE NilMiniMaxAccount
    IN  IF ~m.AccountsNil
        THEN IF accountName = ""
             THEN IF "default" \in DOMAIN m.Accounts
                  THEN m.Accounts["default"]
                  ELSE IF DOMAIN m.Accounts # {}
                  THEN m.Accounts[RangeOrder(m.Accounts, ord)[1]]
                  ELSE legacy
             ELSE IF accountName \in DOMAIN m.Accounts
                  THEN m.Accounts[accountName]
                  ELSE legacy
        ELSE legacy

\* MiniMaxCredentials.ListAccounts().
MiniMaxListAccounts(m, ord) ==
    IF ~m.AccountsNil THEN RangeOrder(m.Accounts, ord)
    ELSE IF m.Cookie # "" THEN <<"default">>
    ELSE <<>>

RECURSIVE MiniMaxValidateAccounts(_, _)
MiniMaxValidateAccounts(accounts, names) ==
    IF names = <<>> THEN "ok"
    ELSE LET acc == accounts[Head(names)]
         IN  IF acc.null THEN "panic"
             ELSE IF acc.Cookie = "" THEN "invalid"
             ELSE IF acc.GroupID = "" THEN "invalid"
             ELSE MiniMaxValidateAccounts(accounts, Tail(names))

\* MiniMaxCredentials.Validate().
MiniMaxValidate(m, ord) ==
    IF ~m.AccountsNil /\ DOMAIN m.Accounts # {}
    THEN MiniMaxValidateAccounts(m.Accounts, RangeOrder(m.Accounts, ord))
    ELSE IF m.Cookie = "" THEN "invalid"
    ELSE IF m.GroupID = "" THEN "invalid"
    ELSE "ok"

\* A nil *OAuthCredentials (and a nil *ClaudeAccount).
NilOAuth == [null |-> TRUE, AccessToken |-> "", ExpiresAt |-> 0]

\* ClaudeAccount.ToOAuthCredentials(): nil for a nil account, else a copy.
ToOAuthCredentials(a) ==
    IF a.null THEN NilOAuth
    ELSE [null |-> FALSE, AccessToken |-> a.AccessToken,
          ExpiresAt |-> a.ExpiresAt]

\* ClaudeCredentials.GetAccount(accountName).
ClaudeGetAccount(c, accountName, ord) ==
    IF ~c.AccountsNil
    THEN IF accountName = ""
         THEN IF "default" \in DOMAIN c.Accounts
              THEN ToOAuthCredentials(c.Accounts["default"])
              ELSE IF DOMAIN c.Accounts # {}
              THEN ToOAuthCredentials(
                       c.Accounts[RangeOrder(c.Accounts, ord)[1]])
              ELSE c.ClaudeAiOauth
         ELSE IF accountName \in DOMAIN c.Accounts
              THEN ToOAuthCredentials(c.Accounts[accountName])
              ELSE c.ClaudeAiOauth
    ELSE c.ClaudeAiOauth

\* ClaudeCredentials.ListAccounts().
ClaudeListAccounts(c, ord) ==
    IF ~c.AccountsNil THEN RangeOrder(c.Accounts, ord)
    ELSE IF ~c.ClaudeAiOauth.null THEN <<"default">>
    ELSE <<>>

RECURSIVE ClaudeValidateAccounts(_, _)
ClaudeValidateAccounts(accounts, names) ==
    IF names = <<>> THEN "ok"
    ELSE LET acc == accounts[Head(names)]
         IN  IF acc.null THEN "panic"
             ELSE IF acc.AccessToken = "" THEN "invalid"
             ELSE ClaudeValidateAccounts(accounts, Tail(names))

\* ClaudeCredentials.Validate().
ClaudeValidate(c, ord) ==
    IF ~c.AccountsNil /\ DOMAIN c.Accounts # {}
    THEN ClaudeValidateAccounts(c.Accounts, RangeOrder(c.Accounts, ord))
    ELSE IF c.ClaudeAiOauth.null THEN "invalid"
    ELSE IF c.ClaudeAiOauth.AccessToken = "" THEN "invalid"
    ELSE "ok"

\* Manager.LoadProvider on a stored file, given the outcome of Validate on
\* the parsed document: "ok", "err" (no file, unreadable, unparseable or
\* invalid) or "panic".
LoadProvider(file, validated) ==
    IF file = "absent" THEN "err"
    ELSE IF file = "corrupt" THEN "err"
    ELSE IF validated = "panic" THEN "panic"
    ELSE IF validated = "invalid" THEN "err"
    ELSE "ok"

\* ------------------------------------------------------------------------
\* Resolution: GetProviders and the per-vendor routines
\* ------------------------------------------------------------------------

\* The time of the resolution, and the expiry times of stored tokens
\* (before it, after it).
NowMs == 1

ExpiryTimes == {0, 2}

\* claude.IsExpired(expiresAt): the token's expiry time has passed.
IsExpired(expiresAt) == NowMs > expiresAt

\* A resolved instance: the adapter's id, the account name and the secret
\* the adapter was constructed with.
Instance(id, accountName, secret) ==
    [id |-> id, account |-> accountName, secret |-> secret]

\* What a resolution routine yields: a list of instances, unless it
\* panicked.
Resolved(list) == [panic |-> FALSE, list |-> list]

Panicked == [panic |-> TRUE, list |-> <<>>]

\* LoadClaudeFromKeychain(): TRUE when it returns an error.
KeychainErr(kc) ==
    \/ kc.file # "ok"
    \/ kc.ClaudeAiOauth.null
    \/ kc.ClaudeAiOauth.AccessToken = ""

\* The loop of getClaudeProviders over multiCreds.ListAccounts().
RECURSIVE ClaudeAccountsLoopNoExpiry(_, _, _, _)
ClaudeAccountsLoopNoExpiry(c, names, keychainErr, ord) ==
    IF names = <<>> THEN <<>>
    ELSE LET accName == Head(names)
             rest == ClaudeAccountsLoopNoExpiry(c, Tail(names),
                                                keychainErr, ord)
             oauth == ClaudeGetAccount(c, accName, ord)
         IN  IF ~keychainErr /\ accName = "default" THEN rest
             ELSE IF oauth.null THEN rest
             ELSE <<Instance("claude", accName, <<oauth.AccessToken>>)>>
                      \o rest

RECURSIVE ClaudeAccountsLoop(_, _, _, _)
ClaudeAccountsLoop(c, names, keychainErr, ord) ==
    IF names = <<>> THEN <<>>
    ELSE LET accName == Head(names)
             rest == ClaudeAccountsLoop(c, Tail(names), keychainErr, ord)
             oauth == ClaudeGetAccount(c, accName, ord)
         IN  IF ~keychainErr /\ accName = "default" THEN rest
             ELSE IF oauth.null \/ IsExpired(oauth.ExpiresAt) THEN rest
             ELSE <<Instance("claude", accName, <<oauth.AccessToken>>)>>
                      \o rest

\* getClaudeProviders(accountFlag, credsMgr), with the keychain file kc and
\* the stored document c.
getClaudeProviders(accountFlag, kc, c, ord) ==
    LET keychainErr == KeychainErr(kc)
        multi == LoadProvider(c.file, ClaudeValidate(c, ord))
    IN  IF multi = "panic" THEN Panicked
        ELSE IF keychainErr /\ multi = "err" THEN Resolved(<<>>)
        ELSE IF accountFlag # ""
        THEN IF multi = "err" THEN Resolved(<<>>)
             ELSE LET oauth == ClaudeGetAccount(c, accountFlag, ord)
                  IN  IF oauth.null \/ IsExpired(oauth.ExpiresAt)
                      THEN Resolved(<<>>)
                      ELSE Resolved(<<Instance("claude", accountFlag,
                                               <<oauth.AccessToken>>)>>)
        ELSE LET fromKeychain ==
                     IF ~keychainErr
                        /\ ~IsExpired(kc.ClaudeAiOauth.ExpiresAt)
                     THEN <<Instance("claude", "default",
                                     <<kc.ClaudeAiOauth.AccessToken>>)>>
                     ELSE <<>>
                 fromStore ==
                     IF multi = "ok"
                     THEN ClaudeAccountsLoop(c, ClaudeListAccounts(c, ord),
                                             keychainErr, ord)
                     ELSE <<>>
             IN  Resolved(fromKeychain \o fromStore)

\* The loop of getKimiProviders over creds.ListAccounts().
RECURSIVE KimiAccountsLoop(_, _, _)
KimiAccountsLoop(k, names, ord) ==
    IF names = <<>> THEN <<>>
    ELSE LET acc == KimiGetAccount(k, Head(names), ord)
             rest == KimiAccountsLoop(k, Tail(names), ord)
         IN  IF acc.null THEN rest
             ELSE <<Instance("kimi", Head(names), <<acc.APIKey>>)>> \o rest

\* getKimiProviders(accountFlag, allAccounts, credsMgr), with the stored
\* document k.
getKimiProviders(accountFlag, allAccounts, k, ord) ==
    LET loaded == LoadProvider(k.file, KimiValidate(k, ord))
    IN  IF loaded = "panic" THEN Panicked
        ELSE IF loaded = "err" THEN Resolved(<<>>)
        ELSE IF allAccounts \/ accountFlag = ""
        THEN Resolved(KimiAccountsLoop(k, KimiListAccounts(k, ord), ord))
        ELSE LET acc == KimiGetAccount(k, accountFlag, ord)
             IN  IF acc.null THEN Resolved(<<>>)
                 ELSE Resolved(<<Instance("kimi", accountFlag,
                                          <<acc.APIKey>>)>>)

\* The loop of getZaiProviders over creds.ListAccounts().
RECURSIVE ZAiAccountsLoop(_, _, _)
ZAiAccountsLoop(z, names, ord) ==
    IF names = <<>> THEN <<>>
    ELSE LET acc == ZAiGetAccount(z, Head(names), ord)
             rest == ZAiAccountsLoop(z, Tail(names), ord)
         IN  IF acc.null THEN rest
             ELSE <<Instance("zai", Head(names), <<acc.APIKey>>)>> \o rest

\* getZaiProviders(accountFlag, allAccounts, credsMgr).
getZaiProviders(accountFlag, allAccounts, z, ord) ==
    LET loaded == LoadProvider(z.file, ZAiValidate(z, ord))
    IN  IF loaded = "panic" THEN Panicked
        ELSE IF loaded = "err" THEN Resolved(<<>>)
        ELSE IF allAccounts \/ accountFlag = ""
        THEN Resolved(ZAiAccountsLoop(z, ZAiListAccounts(z, ord), ord))
        ELSE LET acc == ZAiGetAccount(z, accountFlag, ord)
             IN  IF acc.null THEN Resolved(<<>>)
                 ELSE Resolved(<<Instance("zai", accountFlag,
                                          <<acc.APIKey>>)>>)

\* The loop of getMiniMaxProviders over creds.ListAccounts().
RECURSIVE MiniMaxAccountsLoop(_, _, _)
MiniMaxAccountsLoop(m, names, ord) ==
    IF names = <<>> THEN <<>>
    ELSE LET acc == MiniMaxGetAccount(m, Head(names), ord)
             rest == MiniMaxAccountsLoop(m, Tail(names), ord)
         IN  IF acc.null THEN rest
             ELSE <<Instance("minimax", Head(names),
                             <<acc.Cookie, acc.GroupID>>)>> \o rest

\* getMiniMaxProviders(accountFlag, allAccounts, credsMgr).
getMiniMaxProviders(accountFlag, allAccounts, m, ord) ==
    LET loaded == LoadProvider(m.file, MiniMaxValidate(m, ord))
    IN  IF loaded = "panic" THEN Panicked
        ELSE IF loaded = "err" THEN Resolved(<<>>)
        ELSE IF allAccounts \/ accountFlag = ""
        THEN Resolved(MiniMaxAccountsLoop(m, MiniMaxListAccounts(m, ord),
                                          ord))
        ELSE LET acc == MiniMaxGetAccount(m, accountFlag, ord)
             IN  IF acc.null THEN Resolved(<<>>)
                 ELSE Resolved(<<Instance("minimax", accountFlag,
                                          <<acc.Cookie, acc.GroupID>>)>>)

\* One comma-separated piece of the provider flag: a word with leading and
\* trailing blanks.
Tok(word) == [lead |-> 0, word |-> word, trail |-> 0]

Padded(word) == [lead |-> 1, word |-> word, trail |-> 1]

\* strings.TrimSpace on a piece.
TrimSpace(tok) == tok.word

\* Manager.ListAvailable(): the ids of the .json files of the config
\* directory, in the (sorted) order of os.ReadDir.
ListAvailable(store) ==
    SelectSeq(<<"claude", "kimi", "minimax", "zai">>,
              LAMBDA id : store[id].file # "absent")

\* The switch of GetProviders for one provider id.
ResolveOne(pid, accountFlag, allAccounts, store, kc, ord) ==
    CASE pid = "claude"  -> getClaudeProviders(accountFlag, kc, store.claude,
                                               ord)
      [] pid = "kimi"    -> getKimiProviders(accountFlag, allAccounts,
                                             store.kimi, ord)
      [] pid = "zai"     -> getZaiProviders(accountFlag, allAccounts,
                                            store.zai, ord)
      [] pid = "minimax" -> getMiniMaxProviders(accountFlag, allAccounts,
                                                store.minimax, ord)
      [] OTHER           -> Resolved(<<>>)

\* The loop of GetProviders over providerIDs.
RECURSIVE ResolveLoop(_, _, _, _, _, _)
ResolveLoop(providerIDs, accountFlag, allAccounts, store, kc, ord) ==
    IF providerIDs = <<>> THEN Resolved(<<>>)
    ELSE LET pid == TrimSpace(Head(providerIDs))
             one == ResolveOne(pid, accountFlag, allAccounts, store, kc, ord)
         IN  IF one.panic THEN Panicked
             ELSE LET rest == ResolveLoop(Tail(providerIDs), accountFlag,
                                          allAccounts, store, kc, ord)
                  IN  IF rest.panic THEN Panicked
                      ELSE Resolved(one.list \o rest.list)

\* GetProviders(providerFlag, accountFlag, allAccounts, credsMgr); the
\* provider flag is given as its comma-separated pieces.
GetProviders(providerFlag, accountFlag, allAccounts, store, kc, ord) ==
    LET providerIDs ==
            IF providerFlag = <<Tok("all")>> \/ providerFlag = <<Tok("")>>
            THEN LET available == ListAvailable(store)
                 IN  IF Len(available) = 0 THEN <<Tok("claude")>>
                     ELSE [i \in 1 .. Len(available) |-> Tok(available[i])]
            ELSE providerFlag
    IN  ResolveLoop(providerIDs, accountFlag, allAccounts, store, kc, ord)

\* ------------------------------------------------------------------------
\* Stored documents the resolution is run on
\* ------------------------------------------------------------------------

\* A map without entries.
EmptyAccounts == [n \in {} |-> NilKimiAccount]

\* The maps from some account names to one of the values kinds[name].
AccountMaps(kinds) ==
    UNION { { f \in [S -> UNION { kinds[n] : n \in S }] :
                \A n \in S : f[n] \in kinds[n] } :
            S \in SUBSET AccountNames }

\* The API key stored for an account.
KeyOf(name) == IF name = "default" THEN "key-default" ELSE "key-work"

\* An account entry of an API-key document: null, without key, complete.
KimiAccountKinds(name) ==
    { NilKimiAccount,
      [null |-> FALSE, APIKey |-> ""],
      [null |-> FALSE, APIKey |-> KeyOf(name)] }

AbsentAPIKeyDoc ==
    [file |-> "absent", APIKey |-> "", AccountsNil |-> TRUE,
     Accounts |-> EmptyAccounts]

LegacyAPIKeyDoc ==
    [file |-> "ok", APIKey |-> "key-legacy", AccountsNil |-> TRUE,
     Accounts |-> EmptyAccounts]

\* The kimi.json (and zai.json) files: missing, unparseable, or a document
\* with a legacy key and/or an accounts mapping.
APIKeyDocs ==
    { AbsentAPIKeyDoc, [AbsentAPIKeyDoc EXCEPT !.file = "corrupt"] }
    \cup { [file |-> "ok", APIKey |-> k, AccountsNil |-> TRUE,
            Accounts |-> EmptyAccounts] : k \in {"", "key-legacy"} }
    \cup { [file |-> "ok", APIKey |-> k, AccountsNil |-> FALSE,
            Accounts |-> m] :
           k \in {"", "key-legacy"},
           m \in AccountMaps([n \in AccountNames |-> KimiAccountKinds(n)]) }

\* An account entry of a MiniMax document.
MiniMaxAccountKinds(name) ==
    { NilMiniMaxAccount,
      [null |-> FALSE, Cookie |-> "", GroupID |-> "group"],
      [null |-> FALSE, Cookie |-> KeyOf(name), GroupID |-> ""],
      [null |-> FALSE, Cookie |-> KeyOf(name), GroupID |-> "group"] }

AbsentMiniMaxDoc ==
    [file |-> "absent", Cookie |-> "", GroupID |-> "", AccountsNil |-> TRUE,
     Accounts |-> EmptyAccounts]

LegacyMiniMaxDoc ==
    [file |-> "ok", Cookie |-> "key-legacy", GroupID |-> "group",
     AccountsNil |-> TRUE, Accounts |-> EmptyAccounts]

MiniMaxDocs ==
    { AbsentMiniMaxDoc, [AbsentMiniMaxDoc EXCEPT !.file = "corrupt"] }
    \cup { [file |-> "ok", Cookie |-> c, GroupID |-> g, AccountsNil |-> TRUE,
            Accounts |-> EmptyAccounts] :
           c \in {"", "key-legacy"}, g \in {"", "group"} }
    \cup { [file |-> "ok", Cookie |-> c, GroupID |-> "group",
            AccountsNil |-> FALSE, Accounts |-> m] :
           c \in {"", "key-legacy"},
           m \in AccountMaps([n \in AccountNames |->
                                MiniMaxAccountKinds(n)]) }

\* The OAuth credentials of the files: none, without token, unexpired,
\* expired.
OAuthKinds(token) ==
    { NilOAuth,
      [null |-> FALSE, AccessToken |-> "", ExpiresAt |-> 2] }
    \cup { [null |-> FALSE, AccessToken |-> token, ExpiresAt |-> e] :
           e \in ExpiryTimes }

ClaudeAccountKinds(name) == OAuthKinds(KeyOf(name))

AbsentClaudeDoc ==
    [file |-> "absent", ClaudeAiOauth |-> NilOAuth, AccountsNil |-> TRUE,
     Accounts |-> EmptyAccounts]

LegacyClaudeDoc ==
    [file |-> "ok",
     ClaudeAiOauth |-> [null |-> FALSE, AccessToken |-> "key-legacy",
                        ExpiresAt |-> 2],
     AccountsNil |-> TRUE, Accounts |-> EmptyAccounts]

ClaudeDocs ==
    { AbsentClaudeDoc, [AbsentClaudeDoc EXCEPT !.file = "corrupt"] }
    \cup { [file |-> "ok", ClaudeAiOauth |-> o, AccountsNil |-> TRUE,
            Accounts |-> EmptyAccounts] : o \in OAuthKinds("key-legacy") }
    \cup { [file |-> "ok", ClaudeAiOauth |-> o, AccountsNil |-> FALSE,
            Accounts |-> m] :
           o \in OAuthKinds("key-legacy"),
           m \in AccountMaps([n \in AccountNames |-> ClaudeAccountKinds(n)]) }

\* ~/.claude/.credentials.json: missing, or with its claudeAiOauth object.
AbsentKeychain == [file |-> "absent", ClaudeAiOauth |-> NilOAuth]

FreshKeychain ==
    [file |-> "ok",
     ClaudeAiOauth |-> [null |-> FALSE, AccessToken |-> "key-keychain",
                        ExpiresAt |-> 2]]

Keychains ==
    { AbsentKeychain }
    \cup { [file |-> "ok", ClaudeAiOauth |-> o] :
           o \in OAuthKinds("key-keychain") }

\* The stores and keychain files resolution is run on: one provider's
\* document ranges over all its shapes while the other providers have
\* either no document or a plain legacy one.
Configs ==
    LET base(o) ==
            [claude  |-> IF o THEN LegacyClaudeDoc ELSE AbsentClaudeDoc,
             kimi    |-> IF o THEN LegacyAPIKeyDoc ELSE AbsentAPIKeyDoc,
             zai     |-> IF o THEN LegacyAPIKeyDoc ELSE AbsentAPIKeyDoc,
             minimax |-> IF o THEN LegacyMiniMaxDoc ELSE AbsentMiniMaxDoc]
        plainKeychains == { AbsentKeychain, FreshKeychain }
    IN  { [store |-> [base(o) EXCEPT !.kimi = d], keychain |-> kc] :
          d \in APIKeyDocs, o \in BOOLEAN, kc \in plainKeychains }
        \cup
        { [store |-> [base(o) EXCEPT !.zai = d], keychain |-> kc] :
          d \in APIKeyDocs, o \in BOOLEAN, kc \in plainKeychains }
        \cup
        { [store |-> [base(o) EXCEPT !.minimax = d], keychain |-> kc] :
          d \in MiniMaxDocs, o \in BOOLEAN, kc \in plainKeychains }
        \cup
        { [store |-> [base(o) EXCEPT !.claude = d], keychain |-> kc] :
          d \in ClaudeDocs, o \in BOOLEAN, kc \in Keychains }

\* The values of --provider, as comma-separated pieces.
ProviderFlags ==
    { <<Tok("")>>, <<Tok("all")>>, <<Tok("claude")>>, <<Tok("kimi")>>,
      <<Tok("minimax")>>, <<Tok("kimi"), Tok("zai")>>,
      <<Padded("claude"), Padded("minimax")>>, <<Tok("openai")>> }

\* The values of --account.
AccountFlags == {"", "default", "work", "other"}

VARIABLES
    providerFlag,  \* --provider
    accountFlag,   \* --account
    allAccounts,   \* --all-accounts
    store,         \* the credential file of each provider
    keychain,      \* the Claude CLI credential file
    rpc,           \* "start" before GetProviders, "done" after
    resolved       \* what GetProviders yielded

resolveVars == <<providerFlag, accountFlag, allAccounts, store, keychain,
                 rpc, resolved>>

ResolveInit ==
    /\ providerFlag \in ProviderFlags
    /\ accountFlag \in AccountFlags
    /\ allAccounts \in BOOLEAN
    /\ \E cfg \in Configs :
         /\ store = cfg.store
         /\ keychain = cfg.keychain
    /\ rpc = "start"
    /\ resolved = Resolved(<<>>)

\* One call of GetProviders; the runtime picks the map iteration order.
Resolve ==
    /\ rpc = "start"
    /\ \E ord \in MapOrders :
         resolved' = GetProviders(providerFlag, accountFlag, allAccounts,
                                  store, keychain, ord)
    /\ rpc' = "done"
    /\ UNCHANGED <<providerFlag, accountFlag, allAccounts, store, keychain>>

\* No resolution in progress: nothing configured, no flags.
ResolveIdle ==
    /\ providerFlag = <<Tok("")>>
    /\ accountFlag = ""
    /\ allAccounts = FALSE
    /\ store = [claude |-> AbsentClaudeDoc, kimi |-> AbsentAPIKeyDoc,
                zai |-> AbsentAPIKeyDoc, minimax |-> AbsentMiniMaxDoc]
    /\ keychain = AbsentKeychain
    /\ rpc = "idle"
    /\ resolved = Resolved(<<>>)

\* No fetch in progress.
FetchIdle ==
    /\ providers = <<>>
    /\ slots = <<>>
    /\ mu = 0
    /\ wg = 0
    /\ loopi = 1
    /\ mainpc = "idle"
    /\ pc = <<>>
    /\ usage = <<>>
    /\ errv = <<>>
    /\ outcome = <<>>
    /\ writers = <<>>
    /\ outOfOrder = FALSE
    /\ result = <<>>

\* ------------------------------------------------------------------------
\* The credential files: SaveProvider, ListAccounts, MigrateFromClaudeCLI
\* ------------------------------------------------------------------------

\* What json.Unmarshal reads back from the bytes json.MarshalIndent writes
\* for a KimiCredentials: omitempty leaves an empty accounts map out, so it
\* comes back as a nil map.
MarshalKimi(k) ==
    [file |-> "ok", APIKey |-> k.APIKey,
     AccountsNil |-> k.AccountsNil \/ DOMAIN k.Accounts = {},
     Accounts |-> k.Accounts]

\* The bytes of ~/.claude/.credentials.json read as a ClaudeCredentials.
FromClaudeCLI(cli) ==
    [file |-> "ok", ClaudeAiOauth |-> cli.ClaudeAiOauth,
     AccountsNil |-> TRUE, Accounts |-> EmptyAccounts]

\* A file os.WriteFile gave up on after truncating it: it exists, and what
\* is left in it is not a JSON document.
TruncatedAPIKeyFile == [AbsentAPIKeyDoc EXCEPT !.file = "corrupt"]

TruncatedClaudeFile == [AbsentClaudeDoc EXCEPT !.file = "corrupt"]

\* How a call of os.WriteFile ends: "ok"; "open", the file could not be
\* opened or created and nothing changed; "write", the file was opened
\* with O_TRUNC and the write failed.
WriteOutcomes == {"ok", "open", "write"}

\* The file after os.WriteFile(path, data, 0600).
WriteFile(old, data, truncated, how) ==
    IF how = "ok" THEN data
    ELSE IF how = "open" THEN old
    ELSE truncated

\* The in-memory documents handed to SaveProvider("kimi", ...).
SavedDocs ==
    { LegacyAPIKeyDoc,
      [file |-> "ok", APIKey |-> "key-legacy", AccountsNil |-> FALSE,
       Accounts |-> EmptyAccounts],
      [file |-> "ok", APIKey |-> "", AccountsNil |-> FALSE,
       Accounts |-> [n \in {"work"} |->
                       [null |-> FALSE, APIKey |-> KeyOf(n)]]] }

VARIABLES
    credFiles,   \* kimi.json, claude.json and ~/.claude/.credentials.json
    configDir,   \* whether the config directory exists
    before,      \* credFiles and configDir when the last call started
    lastOp,      \* the last Manager call, its argument and what it returned
    ops          \* number of calls so far

storeVars == <<credFiles, configDir, before, lastOp, ops>>

\* No call yet.
NoOp == [name |-> "", err |-> "", data |-> AbsentAPIKeyDoc, names |-> <<>>]

StoreInit ==
    /\ \E k \in APIKeyDocs, c \in {AbsentClaudeDoc, LegacyClaudeDoc},
          cli \in Keychains :
         credFiles = [kimi |-> k, claude |-> c, cli |-> cli]
    /\ configDir \in BOOLEAN
    /\ (credFiles.kimi.file # "absent" \/ credFiles.claude.file # "absent")
         => configDir
    /\ before = [files |-> credFiles, dir |-> configDir]
    /\ lastOp = NoOp
    /\ ops = 0

\* The bookkeeping of a call.
Called ==
    /\ ops < MaxOps
    /\ ops' = ops + 1
    /\ before' = [files |-> credFiles, dir |-> configDir]

\* Manager.SaveProvider("kimi", data); mkdir is whether os.MkdirAll can
\* create a missing config directory, w how os.WriteFile ends.
SaveProvider(data, mkdir, w) ==
    /\ Called
    /\ IF ~configDir /\ ~mkdir
       THEN /\ lastOp' = [NoOp EXCEPT !.name = "SaveProvider",
                            !.err = "failed to create config directory",
                            !.data = data]
            /\ UNCHANGED <<credFiles, configDir>>
       ELSE /\ configDir' = TRUE
            /\ credFiles' = [credFiles EXCEPT !.kimi =
                   WriteFile(@, MarshalKimi(data), TruncatedAPIKeyFile, w)]
            /\ lastOp' = [NoOp EXCEPT !.name = "SaveProvider",
                            !.err = IF w = "ok" THEN ""
                                    ELSE "failed to write credentials file",
                            !.data = data]

\* Manager.ListAccounts("kimi"): LoadKimi, then creds.ListAccounts().
ListAccounts(ord) ==
    /\ Called
    /\ LET k == credFiles.kimi
           loaded == LoadProvider(k.file, KimiValidate(k, ord))
       IN  lastOp' = [NoOp EXCEPT !.name = "ListAccounts",
                        !.err = IF loaded = "ok" THEN "" ELSE loaded,
                        !.names = IF loaded = "ok"
                                  THEN KimiListAccounts(k, ord) ELSE <<>>]
    /\ UNCHANGED <<credFiles, configDir>>

\* os.Stat(newPath) succeeded: something is at the destination.
DestinationMissing(doc) == FALSE

DestinationExists(doc) == doc.file # "absent"

\* Manager.MigrateFromClaudeCLI(); home is whether os.UserHomeDir succeeds.
MigrateFromClaudeCLI(home, mkdir, w) ==
    /\ Called
    /\ LET failed(msg) ==
               /\ lastOp' = [NoOp EXCEPT !.name = "MigrateFromClaudeCLI",
                               !.err = msg]
               /\ UNCHANGED <<credFiles, configDir>>
       IN  IF ~home THEN failed("failed to get home directory")
           ELSE IF credFiles.cli.file = "absent"
           THEN failed("old Claude credentials not found")
           ELSE IF DestinationExists(credFiles.claude)
           THEN failed("new credentials already exist")
           ELSE IF ~configDir /\ ~mkdir
           THEN failed("failed to create config directory")
           ELSE /\ configDir' = TRUE
                /\ credFiles' = [credFiles EXCEPT !.claude =
                       WriteFile(@, FromClaudeCLI(credFiles.cli),
                                 TruncatedClaudeFile, w)]
                /\ lastOp' = [NoOp EXCEPT !.name = "MigrateFromClaudeCLI",
                                !.err = IF w = "ok" THEN ""
                                        ELSE "failed to write new credentials"]

StoreNext ==
    \/ \E data \in SavedDocs, mkdir \in BOOLEAN, w \in WriteOutcomes :
         SaveProvider(data, mkdir, w)
    \/ \E ord \in MapOrders : ListAccounts(ord)
    \/ \E home \in BOOLEAN, mkdir \in BOOLEAN, w \in WriteOutcomes :
         MigrateFromClaudeCLI(home, mkdir, w)

\* No Manager call in progress: an empty home directory.
StoreIdle ==
    /\ credFiles = [kimi |-> AbsentAPIKeyDoc, claude |-> AbsentClaudeDoc,
                    cli |-> AbsentKeychain]
    /\ configDir = FALSE
    /\ before = [files |-> credFiles, dir |-> configDir]
    /\ lastOp = NoOp
    /\ ops = 0

\* ------------------------------------------------------------------------
\* float64 values and the normalisation of the vendor responses
\* ------------------------------------------------------------------------

\* A float64: a fraction n/d in lowest terms (d > 0), an infinity or NaN.
\* Rounding is left out: the values below are exact in float64.
RECURSIVE GCD(_, _)
GCD(x, y) == IF y = 0 THEN x ELSE GCD(y, x % y)

Fin(n, d) ==
    LET g == GCD(IF n < 0 THEN -n ELSE n, d)
    IN  [kind |-> "fin", n |-> n \div g, d |-> d \div g]

PosInf == [kind |-> "+Inf", n |-> 0, d |-> 1]

NegInf == [kind |-> "-Inf", n |-> 0, d |-> 1]

NaN == [kind |-> "NaN", n |-> 0, d |-> 1]

\* float64(i).
Float(i) == Fin(i, 1)

\* x / y for finite x and y: dividing by zero gives an infinity or NaN.
FDiv(x, y) ==
    IF y.n = 0
    THEN IF x.n = 0 THEN NaN ELSE IF x.n > 0 THEN PosInf ELSE NegInf
    ELSE IF y.n > 0 THEN Fin(x.n * y.d, x.d * y.n)
    ELSE Fin(-(x.n * y.d), x.d * (-y.n))

\* x * i for a positive integer i.
FScale(x, i) == IF x.kind = "fin" THEN Fin(x.n * i, x.d) ELSE x

\* x - y for finite x and y.
FSub(x, y) == Fin(x.n * y.d - y.n * x.d, x.d * y.d)

\* x > y: false as soon as one side is NaN.
FGt(x, y) ==
    IF x.kind = "NaN" \/ y.kind = "NaN" THEN FALSE
    ELSE IF x.kind = "+Inf" THEN y.kind # "+Inf"
    ELSE IF x.kind = "-Inf" THEN FALSE
    ELSE IF y.kind = "+Inf" THEN FALSE
    ELSE IF y.kind = "-Inf" THEN TRUE
    ELSE x.n * y.d > y.n * x.d

\* x >= y.
FGe(x, y) == x.kind # "NaN" /\ y.kind # "NaN" /\ ~FGt(y, x)

\* int(x): the fraction cut towards zero; the conversion of a value that
\* is not finite is implementation-specific, it gives the smallest or the
\* largest int64 or zero.
ToInt(x) ==
    IF x.kind = "fin"
    THEN { [int |-> IF x.n >= 0 THEN x.n \div x.d ELSE -((-x.n) \div x.d),
            sat |-> ""] }
    ELSE { [int |-> 0, sat |-> s] : s \in {"min int64", "max int64", "zero"} }

\* strconv.ParseFloat(s, 64) on a string of characters: a string of
\* decimal digits is its value, the empty string and a string with another
\* character (here a letter) are errors.
Digits == {"0", "1", "2", "3", "4", "5", "6", "7", "8", "9"}

DigitValue(ch) ==
    CASE ch = "0" -> 0 [] ch = "1" -> 1 [] ch = "2" -> 2 [] ch = "3" -> 3
      [] ch = "4" -> 4 [] ch = "5" -> 5 [] ch = "6" -> 6 [] ch = "7" -> 7
      [] ch = "8" -> 8 [] ch = "9" -> 9

RECURSIVE DecimalValue(_)
DecimalValue(str) ==
    IF str = <<>> THEN 0
    ELSE DecimalValue(SubSeq(str, 1, Len(str) - 1)) * 10
           + DigitValue(str[Len(str)])

ParseFloat(str) ==
    IF str = <<>> \/ \E i \in DOMAIN str : str[i] \notin Digits
    THEN [err |-> TRUE, val |-> Float(0)]
    ELSE [err |-> FALSE, val |-> Float(DecimalValue(str))]

\* A nil *provider.UsageWindow; ResetsAt is "nil" or a time.
NilWindow ==
    [null |-> TRUE, Label |-> "", Utilization |-> Float(0),
     ResetsAt |-> "nil", Limit |-> Float(0), Used |-> Float(0),
     Remaining |-> Float(0)]

\* formatScopeLabel and formatDurationLabel on the scopes and windows the
\* responses below carry.
formatScopeLabel(scope) ==
    IF scope = "FEATURE_CODING" THEN "Feature Coding" ELSE scope

formatDurationLabel(duration, timeUnit) ==
    IF duration = 5 /\ timeUnit = "TIME_UNIT_MINUTE"
    THEN "5-Minute Rate Limit"
    ELSE "Rate Limit"

\* Kimi's parseScopeWindow(item); resetTime is empty in the responses
\* below.
parseScopeWindow(item) ==
    LET limit == ParseFloat(item.Detail.Limit)
        used == ParseFloat(item.Detail.Used)
    IN  IF limit.err \/ used.err THEN NilWindow
        ELSE [null |-> FALSE,
              Label |-> formatScopeLabel(item.Scope),
              Utilization |-> FScale(FDiv(used.val, limit.val), 100),
              ResetsAt |-> "nil",
              Limit |-> limit.val,
              Used |-> used.val,
              Remaining |-> FSub(limit.val, used.val)]

\* Kimi's parseLimitWindow(scope, limit).
parseLimitWindow(scope, limit) ==
    LET limitVal == ParseFloat(limit.Detail.Limit)
        usedVal == ParseFloat(limit.Detail.Used)
    IN  IF limitVal.err \/ usedVal.err THEN NilWindow
        ELSE [null |-> FALSE,
              Label |-> formatDurationLabel(limit.Window.Duration,
                                            limit.Window.TimeUnit),
              Utilization |-> FScale(FDiv(usedVal.val, limitVal.val), 100),
              ResetsAt |-> "nil",
              Limit |-> limitVal.val,
              Used |-> usedVal.val,
              Remaining |-> FSub(limitVal.val, usedVal.val)]

\* MiniMax's parseModelRemain(item).
parseModelRemainConsumed(item) ==
    LET total == Float(item.CurrentIntervalTotalCount)
        used == Float(item.CurrentIntervalUsageCount)
    IN  [null |-> FALSE,
         Label |-> IF item.ModelName = "" THEN "MiniMax" ELSE item.ModelName,
         Utilization |-> IF FGt(total, Float(0))
                         THEN FScale(FDiv(used, total), 100)
                         ELSE Float(0),
         ResetsAt |-> "at end_time",
         Limit |-> total,
         Used |-> used,
         Remaining |-> Float(item.RemainsTime)]

parseModelRemain(item) ==
    LET total == Float(item.CurrentIntervalTotalCount)
        used == Float(item.CurrentIntervalUsageCount)
    IN  [null |-> FALSE,
         Label |-> IF item.ModelName = "" THEN "MiniMax" ELSE item.ModelName,
         Utilization |-> IF FGt(total, Float(0))
                         THEN FScale(FDiv(FSub(total, used), total), 100)
                         ELSE Float(0),
         ResetsAt |-> "at end_time",
         Limit |-> total,
         Used |-> used,
         Remaining |-> Float(item.RemainsTime)]

\* The windows that are not nil, in order.
NonNil(ws) == SelectSeq(ws, LAMBDA w : ~w.null)

\* The windows loop of Kimi's GetUsage over resp.Usages: the scope window
\* of each item, then its rate limit windows.
RECURSIVE KimiLimitWindows(_, _)
KimiLimitWindows(scope, limits) ==
    IF limits = <<>> THEN <<>>
    ELSE <<parseLimitWindow(scope, Head(limits))>>
           \o KimiLimitWindows(scope, Tail(limits))

RECURSIVE KimiWindows(_)
KimiWindows(usages) ==
    IF usages = <<>> THEN <<>>
    ELSE NonNil(<<parseScopeWindow(Head(usages))>>
                  \o KimiLimitWindows(Head(usages).Scope,
                                      Head(usages).Limits))
           \o KimiWindows(Tail(usages))

\* The windows loop of MiniMax's GetUsage over resp.ModelRemains.
RECURSIVE MiniMaxWindows(_)
MiniMaxWindows(remains) ==
    IF remains = <<>> THEN <<>>
    ELSE NonNil(<<parseModelRemain(Head(remains))>>)
           \o MiniMaxWindows(Tail(remains))

\* The windows of a vendor response; resp.items is resp.Usages for Kimi
\* and resp.ModelRemains for MiniMax.
VendorWindows(vendor, resp) ==
    IF vendor = "kimi" THEN KimiWindows(resp.items)
    ELSE MiniMaxWindows(resp.items)

\* A response without items.
EmptyResponse == [items |-> <<>>]

\* ------------------------------------------------------------------------
\* The subscription cache (package cache) and the adapters that use it
\* ------------------------------------------------------------------------

\* subscriptionCacheTTL, in minutes (30 * time.Minute).
subscriptionCacheTTL == 30

\* The readings of time.Now(), in minutes: around one TTL after the start.
Instants == {0, 29, 30, 31}

\* API keys, cookies and group ids, as sequences of characters.
KimiAPIKeys == { <<"a">>, <<"a", "b">> }

Cookies == { <<"a">>, <<"a", "b">> }

GroupIDs == { <<"c">>, <<"b", "c">> }

\* The adapters NewProvider(apiKey) and NewProvider(cookie, groupID) build.
Adapters ==
    { [vendor |-> "kimi", secret |-> <<k>>] : k \in KimiAPIKeys }
    \cup { [vendor |-> "minimax", secret |-> <<c, g>>] :
           c \in Cookies, g \in GroupIDs }

\* sha256.Sum256 cut to its first 8 bytes: a function of the bytes alone,
\* taken here to separate any two different inputs.
Sum256(value) == [sha256 |-> value]

\* cache.HashKey(prefix, value).
HashKey(prefix, value) == <<prefix, "_", Sum256(value)>>

\* The cacheKey of getSubscription: the API key for Kimi, the cookie
\* followed by the group id for MiniMax.
CacheKey(a) ==
    IF a.vendor = "kimi"
    THEN HashKey("kimi_subscription", a.secret[1])
    ELSE HashKey("minimax_subscription", a.secret[1] \o a.secret[2])

CacheKeys == { CacheKey(a) : a \in Adapters }

\* JSON values of the data field of an entry: the field is missing, it is
\* a JSON string, or it is the subscription object of an account.  A nil
\* *SubscriptionResponse is NilSubscription.
NoData == [json |-> "", of |-> <<>>]

StringData == [json |-> "string", of |-> <<>>]

Subscription(a) == [json |-> "object", of |-> a.secret]

NilSubscription == [json |-> "nil", of |-> <<>>]

\* A cache file: missing, unreadable, not JSON, or an Entry.
NoFile == [kind |-> "absent", data |-> NoData, expiresAt |-> 0]

UnreadableFile == [kind |-> "unreadable", data |-> NoData, expiresAt |-> 0]

GarbageFile == [kind |-> "garbage", data |-> NoData, expiresAt |-> 0]

EntryFile(data, expiresAt) ==
    [kind |-> "entry", data |-> data, expiresAt |-> expiresAt]

\* time.Now().After(entry.ExpiresAt).
Expired(t, expiresAt) == t > expiresAt

\* now.Add(ttl).
ExpiresAtOnce(t, ttl) == t

ExpiresAt(t, ttl) == t + ttl

\* Manager.Get(key, target) at time t: found, err, the value put in target
\* and the files afterwards.
Get(files, key, t) ==
    LET f == files[key]
        miss == [found |-> FALSE, err |-> "", value |-> NilSubscription,
                 files |-> files]
    IN  IF f.kind = "absent" THEN miss
        ELSE IF f.kind = "unreadable"
        THEN [miss EXCEPT !.err = "failed to read cache file"]
        ELSE IF f.kind = "garbage" THEN miss
        ELSE IF Expired(t, f.expiresAt)
        THEN [miss EXCEPT !.files = [files EXCEPT ![key] = NoFile]]
        ELSE IF f.data.json # "object"
        THEN [miss EXCEPT !.err = "failed to unmarshal cached data"]
        ELSE [miss EXCEPT !.found = TRUE, !.value = f.data]

\* How Manager.Set ends: as os.WriteFile does, or "mkdir" when
\* ensureCacheDir fails.
SetOutcomes == WriteOutcomes \cup {"mkdir"}

\* Manager.Set(key, data, ttl) at time t: err and the files afterwards.
Set(files, key, data, ttl, t, how) ==
    IF how = "mkdir"
    THEN [err |-> "mkdir", files |-> files]
    ELSE [err |-> IF how = "ok" THEN "" ELSE "failed to write cache file",
          files |-> [files EXCEPT ![key] =
                       WriteFile(@, EntryFile(data, ExpiresAt(t, ttl)),
                                 GarbageFile, how)]]

\* How Manager.Clear ends: every os call succeeds, os.ReadDir fails with an
\* error that is not "not exist", or an os.Remove fails.
ClearOutcomes == {"ok", "readdir", "remove"}

\* The files with a directory entry that Clear removes: every key's file
\* is a regular file named key.json.
Removable(files) == { k \in DOMAIN files : files[k].kind # "absent" }

\* Manager.Clear(): err and the files afterwards.  removed is the set of
\* files taken away before the os.Remove that fails, when one does; the
\* directory order is the order of the hashes.
ClearKeepsEntries(files, how, removed) == [err |-> "", files |-> files]

Clear(files, how, removed) ==
    IF how = "readdir"
    THEN [err |-> "failed to read cache directory", files |-> files]
    ELSE IF how = "remove"
    THEN [err |-> "failed to remove cache file",
          files |-> [k \in DOMAIN files |->
                       IF k \in removed THEN NoFile ELSE files[k]]]
    ELSE [err |-> "",
          files |-> [k \in DOMAIN files |->
                       IF k \in Removable(files) THEN NoFile ELSE files[k]]]

\* Provider.getSubscription(); api is whether client.GetSubscription
\* succeeds, how is how the cache write ends; called tells whether
\* client.GetSubscription was called.
getSubscriptionAlways(a, files, t, api, how) ==
    LET key == CacheKey(a)
        got == Get(files, key, t)
    IN  IF ~api
        THEN [sub |-> NilSubscription, files |-> got.files, called |-> TRUE]
        ELSE [sub |-> Subscription(a), called |-> TRUE,
              files |-> Set(got.files, key, Subscription(a),
                            subscriptionCacheTTL, t, how).files]

getSubscription(a, files, t, api, how) ==
    LET key == CacheKey(a)
        got == Get(files, key, t)
    IN  IF got.err = "" /\ got.found
        THEN [sub |-> got.value, files |-> got.files, called |-> FALSE]
        ELSE IF ~api
        THEN [sub |-> NilSubscription, files |-> got.files, called |-> TRUE]
        ELSE [sub |-> Subscription(a), called |-> TRUE,
              files |-> Set(got.files, key, Subscription(a),
                            subscriptionCacheTTL, t, how).files]

\* Provider.GetUsage() of the Kimi and MiniMax adapters; primary is whether
\* client.GetUsage succeeds and resp what it returns.
AdapterGetUsageStrict(a, resp, files, t, primary, api, how) ==
    LET s == getSubscription(a, files, t, api, how)
    IN  IF ~primary \/ s.sub = NilSubscription
        THEN [err |-> "failed", usage |-> ZeroUsage, files |-> s.files,
              called |-> s.called]
        ELSE [err |-> "", called |-> s.called,
              usage |-> [Provider |-> a.vendor,
                         Windows |-> VendorWindows(a.vendor, resp),
                         Extra |-> {<<"subscription", s.sub>>},
                         Error |-> <<>>],
              files |-> s.files]

AdapterGetUsage(a, resp, files, t, primary, api, how) ==
    IF ~primary
    THEN [err |-> "failed", usage |-> ZeroUsage, files |-> files,
          called |-> FALSE]
    ELSE LET s == getSubscription(a, files, t, api, how)
         IN  [err |-> "", called |-> s.called,
              usage |-> [Provider |-> a.vendor,
                         Windows |-> VendorWindows(a.vendor, resp),
                         Extra |-> IF s.sub = NilSubscription THEN {}
                                   ELSE {<<"subscription", s.sub>>},
                         Error |-> <<>>],
              files |-> s.files]

VARIABLES
    cacheAdapters,  \* the two adapters of one vendor that share the cache
    cacheFiles,     \* the file of each key in the cache directory
    now,            \* time.Now(), in minutes
    cacheKeys,      \* the cacheKey each adapter used in getSubscription
    cacheLast,      \* the last call, its inputs and what it returned
    lastSet         \* the last Set that wrote an entry

cacheVars == <<cacheAdapters, cacheFiles, now, cacheKeys, cacheLast, lastSet>>

\* No cacheKey computed yet; no Set on the key yet; no call yet.
NoKey == <<>>

NoSet ==
    [set |-> FALSE, key |-> NoKey, value |-> NilSubscription, at |-> 0,
     ttl |-> 0]

NoCacheOp ==
    [op |-> "", key |-> NoKey, at |-> 0, had |-> NoFile, found |-> FALSE,
     err |-> "", value |-> NilSubscription, usage |-> ZeroUsage,
     primary |-> FALSE, api |-> FALSE, how |-> "", called |-> FALSE]

\* Two adapters of one vendor.
AdapterPairs ==
    { pair \in Adapters \X Adapters : pair[1].vendor = pair[2].vendor }

\* The files an adapter may find under its key when the program starts.
InitialFiles(a) ==
    { NoFile, UnreadableFile, GarbageFile }
    \cup { EntryFile(d, e) :
           d \in { NoData, StringData, Subscription(a) },
           e \in { -1, subscriptionCacheTTL } }

CacheInit ==
    /\ cacheAdapters \in AdapterPairs
    /\ \E f \in InitialFiles(cacheAdapters[1]) :
         cacheFiles = [k \in CacheKeys |->
                         IF k = CacheKey(cacheAdapters[1]) THEN f
                         ELSE NoFile]
    /\ now = 0
    /\ cacheKeys = <<NoKey, NoKey>>
    /\ cacheLast = NoCacheOp
    /\ lastSet = NoSet

\* The keys in use.
AdapterKeys == { CacheKey(cacheAdapters[i]) : i \in DOMAIN cacheAdapters }

\* lastSet after a call that turned the file of key from old to new.
Written(key, old, new, ttl) ==
    IF new = old THEN lastSet
    ELSE IF new.kind = "entry"
    THEN [set |-> TRUE, key |-> key, value |-> new.data, at |-> now,
          ttl |-> ttl]
    ELSE IF new.kind = "garbage" /\ lastSet.key = key THEN NoSet
    ELSE lastSet

\* A call of Manager.Get.
CacheGet(key) ==
    /\ LET got == Get(cacheFiles, key, now)
       IN  /\ cacheFiles' = got.files
           /\ cacheLast' = [NoCacheOp EXCEPT !.op = "Get", !.key = key,
                              !.at = now, !.had = cacheFiles[key],
                              !.found = got.found, !.err = got.err,
                              !.value = got.value]
    /\ UNCHANGED <<cacheAdapters, now, cacheKeys, lastSet>>

\* A call of Manager.Set.
CacheSet(key, data, ttl, how) ==
    /\ LET done == Set(cacheFiles, key, data, ttl, now, how)
       IN  /\ cacheFiles' = done.files
           /\ cacheLast' = [NoCacheOp EXCEPT !.op = "Set", !.key = key,
                              !.at = now, !.had = cacheFiles[key],
                              !.err = done.err, !.value = data,
                              !.how = how]
           /\ lastSet' = Written(key, cacheFiles[key], done.files[key], ttl)
    /\ UNCHANGED <<cacheAdapters, now, cacheKeys>>

\* GetUsage of adapter i, the vendor answering without items.
CacheGetUsage(i, primary, api, how) ==
    /\ LET a == cacheAdapters[i]
           key == CacheKey(a)
           r == AdapterGetUsage(a, EmptyResponse, cacheFiles, now, primary,
                                api, how)
       IN  /\ cacheFiles' = r.files
           /\ cacheLast' = [NoCacheOp EXCEPT !.op = "GetUsage", !.key = key,
                              !.at = now,
                              !.err = r.err, !.usage = r.usage,
                              !.primary = primary, !.api = api,
                              !.how = how, !.called = r.called]
           /\ lastSet' = Written(key, cacheFiles[key], r.files[key],
                                 subscriptionCacheTTL)
           /\ cacheKeys' = IF primary THEN [cacheKeys EXCEPT ![i] = key]
                           ELSE cacheKeys
    /\ UNCHANGED <<cacheAdapters, now>>

\* A call of Manager.Clear.  An os.Remove can fail only when there is a
\* file to remove, and then some file is left.
CacheClear(how, removed) ==
    /\ how = "remove" => removed # Removable(cacheFiles)
    /\ how # "remove" => removed = {}
    /\ LET done == Clear(cacheFiles, how, removed)
           key == lastSet.key
       IN  /\ cacheFiles' = done.files
           /\ cacheLast' = [NoCacheOp EXCEPT !.op = "Clear", !.key = key,
                              !.at = now,
                              !.had = IF lastSet.set THEN cacheFiles[key]
                                      ELSE NoFile,
                              !.err = done.err, !.how = how]
           /\ lastSet' = IF lastSet.set /\ done.files[key] # cacheFiles[key]
                         THEN NoSet ELSE lastSet
    /\ UNCHANGED <<cacheAdapters, now, cacheKeys>>

\* Time passes.
Tick(t) ==
    /\ t > now
    /\ now' = t
    /\ UNCHANGED <<cacheAdapters, cacheFiles, cacheKeys, cacheLast, lastSet>>

CacheNext ==
    \/ \E key \in AdapterKeys : CacheGet(key)
    \/ \E key \in AdapterKeys, i \in DOMAIN cacheAdapters,
          how \in SetOutcomes :
         CacheSet(key, Subscription(cacheAdapters[i]),
                  subscriptionCacheTTL, how)
    \/ \E how \in ClearOutcomes, removed \in SUBSET Removable(cacheFiles) :
         CacheClear(how, removed)
    \/ \E t \in Instants : Tick(t)

\* The subscription call is drawn only after a successful usage call, and
\* the end of the cache write only after a successful subscription call.
AdaptersNext ==
    \/ \E i \in DOMAIN cacheAdapters, primary \in BOOLEAN, api \in BOOLEAN,
          how \in SetOutcomes :
         /\ primary \/ ~api
         /\ api \/ how = "ok"
         /\ CacheGetUsage(i, primary, api, how)
    \/ \E t \in Instants : Tick(t)

\* No adapter built and an empty cache directory.
CacheIdle ==
    /\ cacheAdapters = <<>>
    /\ cacheFiles = [k \in CacheKeys |-> NoFile]
    /\ now = 0
    /\ cacheKeys = <<>>
    /\ cacheLast = NoCacheOp
    /\ lastSet = NoSet

\* ------------------------------------------------------------------------
\* From the vendor responses to the status bar: GetUsage, UsageStats,
\* OutputWaybar
\* ------------------------------------------------------------------------

\* The loops of UsageStats.MaxUtilization, maxUtil being the running
\* maximum.
RECURSIVE MaxOverWindows(_, _)
MaxOverWindows(ws, maxUtil) ==
    IF ws = <<>> THEN maxUtil
    ELSE MaxOverWindows(Tail(ws),
                        IF FGt(Head(ws).Utilization, maxUtil)
                        THEN Head(ws).Utilization ELSE maxUtil)

RECURSIVE MaxOverProviders(_, _)
MaxOverProviders(ps, maxUtil) ==
    IF ps = <<>> THEN maxUtil
    ELSE MaxOverProviders(Tail(ps),
                          IF Head(ps).Error # <<>> THEN maxUtil
                          ELSE MaxOverWindows(Head(ps).Windows, maxUtil))

\* UsageStats.MaxUtilization() and UsageStats.GetClass().
MaxUtilization(ps) == MaxOverProviders(ps, Float(0))

GetClass(ps) ==
    LET maxUtil == MaxUtilization(ps)
    IN  IF FGe(maxUtil, Float(90)) THEN "critical"
        ELSE IF FGe(maxUtil, Float(75)) THEN "warning"
        ELSE "normal"

\* The limit and used strings of a Kimi response.
DetailStrings ==
    { <<>>, <<"x">>, <<"0">>, <<"3", "7">>, <<"1", "0", "0">>,
      <<"1", "5", "0">> }

\* The rate limits of a Kimi usage item: none, or a 5-minute one used at
\* 90 of 100.
KimiLimitLists ==
    { <<>>,
      << [Window |-> [Duration |-> 5, TimeUnit |-> "TIME_UNIT_MINUTE"],
          Detail |-> [Limit |-> <<"1", "0", "0">>, Used |-> <<"9", "0">>,
                      ResetTime |-> ""]] >> }

KimiItems ==
    { [Scope |-> "FEATURE_CODING",
       Detail |-> [Limit |-> l, Used |-> u, ResetTime |-> ""],
       Limits |-> ls] :
      l \in DetailStrings, u \in DetailStrings, ls \in KimiLimitLists }

MiniMaxItems ==
    { [StartTime |-> 0, EndTime |-> 1, RemainsTime |-> 5,
       CurrentIntervalTotalCount |-> total,
       CurrentIntervalUsageCount |-> used,
       ModelName |-> name] :
      total \in {0, 100}, used \in {0, 20, 80, 150},
      name \in {"", "MiniMax-M2"} }

\* What client.GetUsage of an adapter yields: an error, or a response with
\* no item or one item.
Responses ==
    { [vendor |-> v, ok |-> FALSE, items |-> <<>>] :
      v \in {"kimi", "minimax"} }
    \cup { [vendor |-> v, ok |-> TRUE, items |-> <<>>] :
           v \in {"kimi", "minimax"} }
    \cup { [vendor |-> "kimi", ok |-> TRUE, items |-> <<it>>] :
           it \in KimiItems }
    \cup { [vendor |-> "minimax", ok |-> TRUE, items |-> <<it>>] :
           it \in MiniMaxItems }

\* One or two adapters answer.
ResponseLists ==
    { <<r>> : r \in Responses } \cup (Responses \X Responses)

\* The adapter of a vendor.
AdapterOf(vendor) ==
    IF vendor = "kimi" THEN [vendor |-> "kimi", secret |-> << <<"a">> >>]
    ELSE [vendor |-> "minimax", secret |-> << <<"a">>, <<"c">> >>]

VARIABLES
    responses,  \* what the vendor of each instance answers
    stats,      \* stats.Providers, filled in instance order
    opc,        \* "fetch" while entries are missing, then "output", "done"
    waybar      \* the WaybarOutput written

utilVars == <<responses, stats, opc, waybar>>

\* Nothing written yet.
NoWaybar == [Class |-> "", Percentage |-> [int |-> 0, sat |-> ""]]

UtilInit ==
    /\ responses \in ResponseLists
    /\ stats = <<>>
    /\ opc = "fetch"
    /\ waybar = NoWaybar

\* The entry of the next instance: its GetUsage, run with an empty cache
\* and a failing subscription call, or NewUsageError when it fails.
CollectUsage ==
    /\ opc = "fetch"
    /\ LET r == responses[Len(stats) + 1]
           got == AdapterGetUsage(AdapterOf(r.vendor), r, cacheFiles, now,
                                  r.ok, FALSE, "ok")
           entry == IF got.err = "" THEN got.usage
                    ELSE NewUsageError(r.vendor,
                                       ProviderDisplayName(r.vendor),
                                       got.err)
       IN  /\ stats' = Append(stats, entry)
           /\ opc' = IF Len(stats') = Len(responses) THEN "output"
                     ELSE "fetch"
    /\ UNCHANGED <<responses, waybar>>

\* OutputWaybar(stats): its class and percentage fields.
OutputWaybar ==
    /\ opc = "output"
    /\ \E p \in ToInt(MaxUtilization(stats)) :
         waybar' = [Class |-> GetClass(stats), Percentage |-> p]
    /\ opc' = "done"
    /\ UNCHANGED <<responses, stats>>

UtilNext == CollectUsage \/ OutputWaybar

\* Nothing to report.
UtilIdle ==
    /\ responses = <<>>
    /\ stats = <<>>
    /\ opc = "idle"
    /\ waybar = NoWaybar

\* ------------------------------------------------------------------------
\* The fetch tasks and the cache directory
\* ------------------------------------------------------------------------
\* The tasks of one FetchAllUsage call, each inside prov.GetUsage() of a Kimi
\* or MiniMax adapter.  Every adapter's cache.Manager is on the same
\* directory; the tasks run the file operations of getSubscription one at a
\* time, in any interleaving.

VARIABLES
    taskPc,    \* position of each task inside GetUsage
    taskSub,   \* each task's subscription, NilSubscription when it has none
    touched    \* per cache file, the tasks that read or wrote it

shareVars == <<taskPc, taskSub, touched>>

\* Two instances of the resolved list: the store may hold one credential
\* under two account names.
ShareInit ==
    /\ cacheAdapters \in Adapters \X Adapters
    /\ \E f \in { NoFile,
                  EntryFile(Subscription(cacheAdapters[1]),
                            subscriptionCacheTTL) } :
         cacheFiles = [k \in CacheKeys |->
                         IF k = CacheKey(cacheAdapters[1]) THEN f ELSE NoFile]
    /\ now = 0
    /\ cacheKeys = <<>>
    /\ cacheLast = NoCacheOp
    /\ lastSet = NoSet
    /\ taskPc = [i \in 1 .. 2 |-> "GetUsage"]
    /\ taskSub = [i \in 1 .. 2 |-> NilSubscription]
    /\ touched = [k \in CacheKeys |-> {}]

\* resp, err := p.client.GetUsage(); on an error GetUsage returns.
TaskGetUsage(i, primary) ==
    /\ taskPc[i] = "GetUsage"
    /\ taskPc' = [taskPc EXCEPT ![i] = IF primary THEN "cacheGet" ELSE "done"]
    /\ UNCHANGED <<cacheVars, taskSub, touched>>

\* p.cache.Get(cacheKey, &cached) of getSubscription.
TaskCacheGet(i) ==
    /\ taskPc[i] = "cacheGet"
    /\ LET key == CacheKey(cacheAdapters[i])
           got == Get(cacheFiles, key, now)
           hit == got.err = "" /\ got.found
       IN  /\ cacheFiles' = got.files
           /\ touched' = [touched EXCEPT ![key] = @ \cup {i}]
           /\ taskSub' = [taskSub EXCEPT ![i] =
                            IF hit THEN got.value ELSE @]
           /\ taskPc' = [taskPc EXCEPT ![i] =
                           IF hit THEN "done" ELSE "GetSubscription"]
    /\ UNCHANGED <<cacheAdapters, now, cacheKeys, cacheLast, lastSet>>

\* sub, err := p.client.GetSubscription(); on an error the result is nil.
TaskGetSubscription(i, api) ==
    /\ taskPc[i] = "GetSubscription"
    /\ taskSub' = [taskSub EXCEPT ![i] =
                     IF api THEN Subscription(cacheAdapters[i]) ELSE @]
    /\ taskPc' = [taskPc EXCEPT ![i] = IF api THEN "cacheSet" ELSE "done"]
    /\ UNCHANGED <<cacheVars, touched>>

\* _ = p.cache.Set(cacheKey, sub, subscriptionCacheTTL)
TaskCacheSet(i, how) ==
    /\ taskPc[i] = "cacheSet"
    /\ LET key == CacheKey(cacheAdapters[i])
           done == Set(cacheFiles, key, taskSub[i], subscriptionCacheTTL,
                       now, how)
       IN  /\ cacheFiles' = done.files
           /\ touched' = [touched EXCEPT ![key] =
                            IF how = "mkdir" THEN @ ELSE @ \cup {i}]
    /\ taskPc' = [taskPc EXCEPT ![i] = "done"]
    /\ UNCHANGED <<cacheAdapters, now, cacheKeys, cacheLast, lastSet, taskSub>>

ShareNext ==
    \/ \E i \in 1 .. 2, primary \in BOOLEAN : TaskGetUsage(i, primary)
    \/ \E i \in 1 .. 2 : TaskCacheGet(i)
    \/ \E i \in 1 .. 2, api \in BOOLEAN : TaskGetSubscription(i, api)
    \/ \E i \in 1 .. 2, how \in SetOutcomes : TaskCacheSet(i, how)

\* No task.
ShareIdle ==
    /\ taskPc = <<>>
    /\ taskSub = <<>>
    /\ touched = [k \in CacheKeys |-> {}]

\* ------------------------------------------------------------------------
\* The setup commands on kimi.json: add, remove and rename of an account
\* ------------------------------------------------------------------------

\* var creds credentials.KimiCredentials
ZeroKimiCredentials ==
    [file |-> "ok", APIKey |-> "", AccountsNil |-> TRUE,
     Accounts |-> EmptyAccounts]

\* &credentials.KimiAccount{APIKey: apiKey}
KimiAccount(apiKey) == [null |-> FALSE, APIKey |-> apiKey]

\* m[name] = acc and delete(m, name) on an accounts map.
MapSet(m, name, acc) ==
    [n \in DOMAIN m \cup {name} |-> IF n = name THEN acc ELSE m[n]]

MapDelete(m, name) == [n \in DOMAIN m \ {name} |-> m[n]]

\* m[name] == nil: there is no entry, or the entry is a nil pointer.
MapNil(m, name) == name \notin DOMAIN m \/ m[name].null

\* mgr.LoadProvider("kimi", &creds): how it ends and what it leaves in
\* creds; json.Unmarshal has filled creds when Validate rejects them.
LoadKimi(file, ord) ==
    [res   |-> LoadProvider(file.file, KimiValidate(file, ord)),
     creds |-> IF file.file = "ok" THEN file ELSE ZeroKimiCredentials]

\* How the os calls of one command end: whether os.MkdirAll can create a
\* missing config directory, how os.WriteFile ends, whether os.Remove
\* succeeds.
OSOutcomes == [mkdir : BOOLEAN, w : WriteOutcomes, rm : BOOLEAN]

\* What a command returns: err, and the file and the directory afterwards.
\* A panic ends the program with the file as it was.
Outcome(err, file, dir) == [err |-> err, file |-> file, dir |-> dir]

\* mgr.SaveProvider("kimi", creds).
SaveKimi(file, dir, creds, os) ==
    IF ~dir /\ ~os.mkdir
    THEN Outcome("failed to create config directory", file, dir)
    ELSE Outcome(IF os.w = "ok" THEN ""
                 ELSE "failed to write credentials file",
                 WriteFile(file, MarshalKimi(creds), TruncatedAPIKeyFile,
                           os.w),
                 TRUE)

\* mgr.DeleteProvider("kimi").
DeleteKimi(file, dir, os) ==
    IF file.file = "absent"
    THEN Outcome("no credentials found for provider", file, dir)
    ELSE IF ~os.rm
    THEN Outcome("failed to delete credentials file", file, dir)
    ELSE Outcome("", AbsentAPIKeyDoc, dir)

\* saveKimiCredentials(mgr, accountName, apiKey) of the CLI add flow.
saveKimiCredentials(file, dir, accountName, apiKey, ord, os) ==
    LET loaded == IF file.file # "absent" THEN LoadKimi(file, ord)
                  ELSE [res |-> "ok", creds |-> ZeroKimiCredentials]
        creds == IF loaded.res = "err" THEN ZeroKimiCredentials
                 ELSE loaded.creds
        multi == IF creds.AccountsNil
                 THEN [creds EXCEPT
                         !.AccountsNil = FALSE,
                         !.Accounts = IF creds.APIKey # ""
                                      THEN MapSet(EmptyAccounts, "default",
                                                  KimiAccount(creds.APIKey))
                                      ELSE EmptyAccounts,
                         !.APIKey = ""]
                 ELSE creds
        added == [multi EXCEPT
                    !.Accounts = MapSet(@, accountName, KimiAccount(apiKey))]
    IN  IF loaded.res = "panic" THEN Outcome("panic", file, dir)
        ELSE SaveKimi(file, dir, added, os)

\* addAPIKeyAccount(mgr, "kimi", "Kimi", accountName): the account name and
\* the API key are read from the terminal.
addAPIKeyAccount(file, dir, accountName, apiKey, ord, os) ==
    IF apiKey = "" THEN Outcome("API key is required", file, dir)
    ELSE saveKimiCredentials(file, dir,
                             IF accountName = "" THEN "default"
                             ELSE accountName,
                             apiKey, ord, os)

\* Model.checkAccountExists(accountName) of the TUI: "" when it returns nil.
checkAccountExists(file, accountName, ord) ==
    IF file.file = "absent" THEN ""
    ELSE LET loaded == LoadKimi(file, ord)
         IN  IF loaded.res # "ok" THEN loaded.res
             ELSE IF \E i \in 1 .. Len(KimiListAccounts(file, ord)) :
                        KimiListAccounts(file, ord)[i] = accountName
             THEN "account already exists"
             ELSE ""

\* Model.saveAccount() of the TUI add flow, for the provider "kimi".
saveAccount(file, dir, accountName, apiKey, ord, os) ==
    LET loaded == IF file.file # "absent" THEN LoadKimi(file, ord)
                  ELSE [res |-> "ok", creds |-> ZeroKimiCredentials]
        creds == loaded.creds
        multi == IF creds.AccountsNil
                 THEN [creds EXCEPT !.AccountsNil = FALSE,
                                    !.Accounts = EmptyAccounts]
                 ELSE creds
        added == [multi EXCEPT
                    !.Accounts = MapSet(@, accountName, KimiAccount(apiKey))]
    IN  IF loaded.res = "panic" THEN Outcome("panic", file, dir)
        ELSE SaveKimi(file, dir, added, os)

\* The TUI add flow: Enter on the account-name screen, then Enter on the
\* API-key screen.
tuiAddAccount(file, dir, inputName, apiKey, ord, os) ==
    LET accountName == IF inputName = "" THEN "default" ELSE inputName
        exists == checkAccountExists(file, accountName, ord)
    IN  IF exists # "" THEN Outcome(exists, file, dir)
        ELSE IF apiKey = "" THEN Outcome("API key is required", file, dir)
        ELSE saveAccount(file, dir, accountName, apiKey, ord, os)

\* removeKimiAccount(mgr, accountName), behind RemoveAccount of the CLI.
removeKimiAccount(file, dir, accountName, ord, os) ==
    LET loaded == LoadKimi(file, ord)
        creds == loaded.creds
        left == [creds EXCEPT !.Accounts = MapDelete(@, accountName)]
    IN  IF accountName = "" THEN Outcome("account name is required", file, dir)
        ELSE IF loaded.res # "ok" THEN Outcome(loaded.res, file, dir)
        ELSE IF creds.AccountsNil \/ MapNil(creds.Accounts, accountName)
        THEN Outcome("account not found", file, dir)
        ELSE IF DOMAIN left.Accounts = {} THEN DeleteKimi(file, dir, os)
        ELSE SaveKimi(file, dir, left, os)

\* Model.doRemoveAccount() of the TUI, for the provider "kimi".
doRemoveAccount(file, dir, selectedAccount, ord, os) ==
    LET loaded == LoadKimi(file, ord)
        creds == loaded.creds
        left == [creds EXCEPT !.Accounts = MapDelete(@, selectedAccount)]
    IN  IF loaded.res # "ok" THEN Outcome(loaded.res, file, dir)
        ELSE IF creds.AccountsNil
        THEN IF creds.APIKey # "" /\ selectedAccount = "default"
             THEN DeleteKimi(file, dir, os)
             ELSE Outcome("account not found", file, dir)
        ELSE IF MapNil(creds.Accounts, selectedAccount)
        THEN Outcome("account not found", file, dir)
        ELSE IF DOMAIN left.Accounts = {} THEN DeleteKimi(file, dir, os)
        ELSE SaveKimi(file, dir, left, os)

\* renameKimiAccount(mgr, oldName, newName), behind RenameAccount.
renameKimiAccount(file, dir, oldName, newName, ord, os) ==
    LET loaded == LoadKimi(file, ord)
        creds == loaded.creds
        moved == [creds EXCEPT
                    !.Accounts = MapDelete(
                        MapSet(@, newName, creds.Accounts[oldName]),
                        oldName)]
    IN  IF oldName = "" \/ newName = ""
        THEN Outcome("both old and new account names are required", file,
                     dir)
        ELSE IF loaded.res # "ok" THEN Outcome(loaded.res, file, dir)
        ELSE IF creds.AccountsNil \/ MapNil(creds.Accounts, oldName)
        THEN Outcome("account not found", file, dir)
        ELSE IF ~MapNil(creds.Accounts, newName)
        THEN Outcome("account already exists", file, dir)
        ELSE SaveKimi(file, dir, moved, os)

VARIABLES
    setupOp    \* the last setup command, its arguments and what it returned

setupVars == <<setupOp>>

\* No command yet.
NoSetupOp == [op |-> "", account |-> "", newName |-> "", err |-> ""]

\* What is typed as an account name and as an API key.
NameInputs == AccountNames \cup {""}

KeyInputs == {"", "key-new", "key-work"}

\* The setup commands on a given kimi.json.
SetupInit ==
    /\ \E k \in APIKeyDocs :
         credFiles = [kimi |-> k, claude |-> AbsentClaudeDoc,
                      cli |-> AbsentKeychain]
    /\ configDir \in BOOLEAN
    /\ credFiles.kimi.file # "absent" => configDir
    /\ before = [files |-> credFiles, dir |-> configDir]
    /\ lastOp = NoOp
    /\ ops = 0
    /\ setupOp = NoSetupOp

\* The setup commands on a store without files.
SetupEmptyInit ==
    /\ credFiles = [kimi |-> AbsentAPIKeyDoc, claude |-> AbsentClaudeDoc,
                    cli |-> AbsentKeychain]
    /\ configDir \in BOOLEAN
    /\ before = [files |-> credFiles, dir |-> configDir]
    /\ lastOp = NoOp
    /\ ops = 0
    /\ setupOp = NoSetupOp

\* The store and the record of the command after it returned done.
Ran(op, account, newName, done) ==
    /\ credFiles' = [credFiles EXCEPT !.kimi = done.file]
    /\ configDir' = done.dir
    /\ before' = [files |-> credFiles, dir |-> configDir]
    /\ setupOp' = [op |-> op, account |-> account, newName |-> newName,
                   err |-> done.err]
    /\ UNCHANGED <<lastOp, ops>>

\* llm-usage setup add kimi
AddAccount(accountName, apiKey, ord, os) ==
    Ran("AddAccount",
        IF accountName = "" THEN "default" ELSE accountName, "",
        addAPIKeyAccount(credFiles.kimi, configDir, accountName, apiKey, ord,
                         os))

\* The add flow of the setup TUI.
TUIAddAccount(inputName, apiKey, ord, os) ==
    Ran("saveAccount",
        IF inputName = "" THEN "default" ELSE inputName, "",
        tuiAddAccount(credFiles.kimi, configDir, inputName, apiKey, ord, os))

\* llm-usage setup remove kimi <account>
RemoveAccount(accountName, ord, os) ==
    Ran("RemoveAccount", accountName, "",
        removeKimiAccount(credFiles.kimi, configDir, accountName, ord, os))

\* The remove flow of the setup TUI: the account is chosen from the list
\* of the provider's accounts and the removal is confirmed.
TUIRemoveAccount(selectedAccount, ord, os) ==
    /\ credFiles.kimi.file # "absent"
    /\ LoadKimi(credFiles.kimi, ord).res = "ok"
    /\ \E i \in 1 .. Len(KimiListAccounts(credFiles.kimi, ord)) :
         KimiListAccounts(credFiles.kimi, ord)[i] = selectedAccount
    /\ Ran("doRemoveAccount", selectedAccount, "",
           doRemoveAccount(credFiles.kimi, configDir, selectedAccount, ord,
                           os))

\* llm-usage setup rename kimi <old> <new>
RenameAccount(oldName, newName, ord, os) ==
    Ran("RenameAccount", oldName, newName,
        renameKimiAccount(credFiles.kimi, configDir, oldName, newName, ord,
                          os))

SetupCLINext ==
    \/ \E n \in NameInputs, k \in KeyInputs, ord \in MapOrders,
          os \in OSOutcomes : AddAccount(n, k, ord, os)
    \/ \E n \in NameInputs, ord \in MapOrders, os \in OSOutcomes :
         RemoveAccount(n, ord, os)
    \/ \E old \in NameInputs, new \in NameInputs, ord \in MapOrders,
          os \in OSOutcomes : RenameAccount(old, new, ord, os)

SetupNext ==
    \/ SetupCLINext
    \/ \E n \in NameInputs, k \in KeyInputs, ord \in MapOrders,
          os \in OSOutcomes : TUIAddAccount(n, k, ord, os)
    \/ \E n \in AccountNames, ord \in MapOrders, os \in OSOutcomes :
         TUIRemoveAccount(n, ord, os)

\* No setup command.
SetupIdle == setupOp = NoSetupOp

\* ------------------------------------------------------------------------
\* The setup TUI: key presses on the add flow
\* ------------------------------------------------------------------------
\* The Model of package tui and its handleKeyMsg, for the screens of the
\* add flow.  The list and remove screens neither read nor write inputText
\* and are left out.  updateMainMenu is not part of the source at hand: the
\* main menu is taken to open the provider selection on Enter.

MaxInput == 2

\* The characters typed, and the keys pressed: msg.String() of a key that
\* carries one rune is that rune.  "k" stands for every character but "q".
Runes == {"k", "q"}

Keys == Runes \cup {"enter", "esc", "backspace", "ctrl+h", "ctrl+c", "up",
                    "down"}

\* AllProviders, in order.
AllProviders == <<"claude", "kimi", "minimax", "zai">>

\* A typed character, with the screen it was typed on.
Typed(ch, screen) == [ch |-> ch, on |-> screen]

\* The account name used when nothing was typed.
DefaultName == << Typed("default", "AddAccountName") >>

\* NewModel(mgr).
NewModel ==
    [screen |-> "MainMenu", selectedIdx |-> 0, inputText |-> <<>>,
     selectedProvider |-> "", accountName |-> <<>>, successMsg |-> <<>>,
     errorMsg |-> "", screenHistory |-> <<>>, quit |-> FALSE]

\* Model.returnToMainMenu().
returnToMainMenu(m) == [NewModel EXCEPT !.quit = m.quit]

\* Model.goBack().
goBack(m) ==
    IF Len(m.screenHistory) > 0
    THEN [m EXCEPT !.screen = m.screenHistory[Len(m.screenHistory)],
                   !.screenHistory = SubSeq(@, 1, Len(@) - 1),
                   !.selectedIdx = 0,
                   !.errorMsg = ""]
    ELSE m

\* Model.pushScreen(s).
pushScreen(m, s) ==
    [m EXCEPT !.screenHistory = Append(@, m.screen),
              !.screen = s,
              !.selectedIdx = 0]

\* The main menu with the add entry selected.
updateMainMenu(m, key) ==
    IF key = "enter" THEN pushScreen(m, "ProviderSelect") ELSE m

\* Model.updateProviderSelect(msg).
updateProviderSelect(m, key) ==
    IF key \in {"up", "k"}
    THEN [m EXCEPT !.selectedIdx = IF @ > 0 THEN @ - 1 ELSE @]
    ELSE IF key \in {"down", "j"}
    THEN [m EXCEPT !.selectedIdx =
                     IF @ < Len(AllProviders) - 1 THEN @ + 1 ELSE @]
    ELSE IF key = "enter"
    THEN LET provider == AllProviders[m.selectedIdx + 1]
         IN  IF provider = "claude"
             THEN [m EXCEPT !.selectedProvider = provider,
                            !.errorMsg = "Claude uses OAuth"]
             ELSE IF provider = "minimax"
             THEN [m EXCEPT !.selectedProvider = provider,
                            !.errorMsg = "MiniMax requires multiple fields"]
             ELSE pushScreen([m EXCEPT !.selectedProvider = provider],
                             "AddAccountName")
    ELSE m

\* The editing of inputText that both input screens share: Backspace and
\* Ctrl+H drop the last character, a key with runes appends them.
EditInput(m, key) ==
    IF key \in {"backspace", "ctrl+h"}
    THEN [m EXCEPT !.inputText =
                     IF Len(@) > 0 THEN SubSeq(@, 1, Len(@) - 1) ELSE @]
    ELSE IF key \in Runes
    THEN [m EXCEPT !.inputText = Append(@, Typed(key, m.screen))]
    ELSE m

\* Model.updateAddAccountName(msg); exists is whether checkAccountExists
\* returns an error.
updateAddAccountName(m, key, exists) ==
    IF key = "enter"
    THEN IF exists THEN [m EXCEPT !.errorMsg = "account already exists"]
         ELSE pushScreen([m EXCEPT
                            !.accountName = IF m.inputText = <<>>
                                            THEN DefaultName
                                            ELSE m.inputText,
                            !.inputText = <<>>],
                         "AddAPIKey")
    ELSE EditInput(m, key)

\* Model.saveAccount(); saved is whether the credentials were written.
tuiSaveAccount(m, saved) ==
    IF ~saved THEN [m EXCEPT !.errorMsg = "failed to save"]
    ELSE [m EXCEPT !.successMsg = m.accountName, !.screen = "Success"]

\* Model.updateAddAPIKey(msg).
updateAddAPIKey(m, key, saved) ==
    IF key = "enter"
    THEN IF m.inputText = <<>>
         THEN [m EXCEPT !.errorMsg = "API key is required"]
         ELSE tuiSaveAccount(m, saved)
    ELSE EditInput(m, key)

\* Model.handleKeyMsg(msg).
handleKeyMsg(m, key, exists, saved) ==
    IF key \in {"ctrl+c", "q"}
    THEN IF m.screen = "MainMenu" THEN [m EXCEPT !.quit = TRUE]
         ELSE returnToMainMenu(m)
    ELSE IF key = "esc" THEN goBack(m)
    ELSE IF m.screen = "MainMenu" THEN updateMainMenu(m, key)
    ELSE IF m.screen = "ProviderSelect" THEN updateProviderSelect(m, key)
    ELSE IF m.screen = "AddAccountName"
    THEN updateAddAccountName(m, key, exists)
    ELSE IF m.screen = "AddAPIKey" THEN updateAddAPIKey(m, key, saved)
    ELSE returnToMainMenu(m)

\* What View() writes in clear from what was typed: the input of the
\* account-name screen and the account name inside the success message.
\* viewAddAPIKey writes one "*" per character of the input.
ShownInClear(m) ==
    IF m.screen = "AddAccountName" THEN m.inputText
    ELSE IF m.screen = "Success" THEN m.successMsg
    ELSE <<>>

VARIABLES
    tui,       \* the Model of the running program
    pressed    \* the key of the last key press, "" before the first

tuiVars == <<tui, pressed>>

TUIInit == tui = NewModel /\ pressed = ""

\* One key press, handled by Update.  The input is capped at MaxInput
\* characters; exists and saved are drawn where they are read.
KeyPress(key, exists, saved) ==
    /\ ~tui.quit
    /\ key \in Runes \ {"q"} => Len(tui.inputText) < MaxInput
    /\ exists => (tui.screen = "AddAccountName" /\ key = "enter")
    /\ ~saved => (tui.screen = "AddAPIKey" /\ key = "enter")
    /\ tui' = handleKeyMsg(tui, key, exists, saved)
    /\ pressed' = key

TUINext == \E key \in Keys, exists \in BOOLEAN, saved \in BOOLEAN :
               KeyPress(key, exists, saved)

\* No TUI running.
TUIIdle == tui = NewModel /\ pressed = ""

\* ------------------------------------------------------------------------
\* The specifications
\* ------------------------------------------------------------------------

vars == <<fetchVars, resolveVars, storeVars, cacheVars, utilVars,
                 shareVars, setupVars, tuiVars>>

\* What FetchAllUsage leaves alone.
nonFetchVars == <<resolveVars, storeVars, cacheVars, utilVars, shareVars,
                 setupVars, tuiVars>>

\* FetchAllUsage on a given instance list.
Init ==
    /\ FetchInit /\ ResolveIdle /\ StoreIdle /\ CacheIdle /\ UtilIdle
    /\ ShareIdle
    /\ SetupIdle
    /\ TUIIdle

Next == FetchNext /\ UNCHANGED nonFetchVars

Spec == Init /\ [][Next]_vars

\* The scheduling of the tasks: a task that is past GetUsage keeps running,
\* and sync.Mutex hands the lock to every waiter eventually.  Nothing is
\* assumed about GetUsage returning.
FetchFairness ==
    \A i \in 1 .. MaxInstances :
        /\ WF_vars(i \in Tasks /\ Inject(i) /\ UNCHANGED nonFetchVars)
        /\ SF_vars(i \in Tasks /\ Lock(i) /\ UNCHANGED nonFetchVars)
        /\ WF_vars(i \in Tasks /\ WriteErr(i) /\ UNCHANGED nonFetchVars)
        /\ WF_vars(i \in Tasks /\ WriteOk(i) /\ UNCHANGED nonFetchVars)
        /\ WF_vars(i \in Tasks /\ Unlock(i) /\ UNCHANGED nonFetchVars)
        /\ WF_vars(i \in Tasks /\ Done(i) /\ UNCHANGED nonFetchVars)

FairSpec == Spec /\ FetchFairness

\* GetProviders on given flags and files.
InitResolve ==
    /\ ResolveInit /\ FetchIdle /\ StoreIdle /\ CacheIdle /\ UtilIdle
    /\ ShareIdle
    /\ SetupIdle
    /\ TUIIdle

NextResolve ==
    /\ Resolve
    /\ UNCHANGED <<fetchVars, storeVars, cacheVars, utilVars, shareVars,
                 setupVars, tuiVars>>

SpecResolve == InitResolve /\ [][NextResolve]_vars

\* Calls of the credentials Manager on given files.
InitStore ==
    /\ StoreInit /\ FetchIdle /\ ResolveIdle /\ CacheIdle /\ UtilIdle
    /\ ShareIdle
    /\ SetupIdle
    /\ TUIIdle

NextStore ==
    /\ StoreNext
    /\ UNCHANGED <<fetchVars, resolveVars, cacheVars, utilVars, shareVars,
                 setupVars, tuiVars>>

SpecStore == InitStore /\ [][NextStore]_vars

\* Calls of the cache Manager on a given cache.
InitCache ==
    /\ CacheInit /\ FetchIdle /\ ResolveIdle /\ StoreIdle /\ UtilIdle
    /\ ShareIdle
    /\ SetupIdle
    /\ TUIIdle

NextCache ==
    /\ CacheNext
    /\ UNCHANGED <<fetchVars, resolveVars, storeVars, utilVars, shareVars,
                 setupVars, tuiVars>>

SpecCache == InitCache /\ [][NextCache]_vars

\* GetUsage calls of two adapters of one vendor on a given cache.
NextAdapters ==
    /\ AdaptersNext
    /\ UNCHANGED <<fetchVars, resolveVars, storeVars, utilVars, shareVars,
                 setupVars, tuiVars>>

SpecAdapters == InitCache /\ [][NextAdapters]_vars

\* A report built from given vendor responses.
InitUtil ==
    /\ UtilInit /\ FetchIdle /\ ResolveIdle /\ StoreIdle /\ CacheIdle
    /\ ShareIdle
    /\ SetupIdle
    /\ TUIIdle

NextUtil ==
    /\ UtilNext
    /\ UNCHANGED <<fetchVars, resolveVars, storeVars, cacheVars, shareVars,
                 setupVars, tuiVars>>

SpecUtil == InitUtil /\ [][NextUtil]_vars

\* The GetUsage calls of two tasks of one FetchAllUsage, interleaved.
InitShare ==
    /\ ShareInit /\ FetchIdle /\ ResolveIdle /\ StoreIdle /\ UtilIdle
    /\ SetupIdle
    /\ TUIIdle

NextShare ==
    /\ ShareNext
    /\ UNCHANGED <<fetchVars, resolveVars, storeVars, utilVars, setupVars,
                 tuiVars>>

SpecShare == InitShare /\ [][NextShare]_vars

\* The setup commands, of the CLI and of the TUI, on a given kimi.json.
InitSetup ==
    /\ SetupInit /\ FetchIdle /\ ResolveIdle /\ CacheIdle /\ UtilIdle
    /\ ShareIdle
    /\ TUIIdle

NextSetup ==
    /\ SetupNext
    /\ UNCHANGED <<fetchVars, resolveVars, cacheVars, utilVars, shareVars,
                 tuiVars>>

SpecSetup == InitSetup /\ [][NextSetup]_vars

\* The setup commands of the CLI on a store without files.
InitSetupCLI ==
    /\ SetupEmptyInit /\ FetchIdle /\ ResolveIdle /\ CacheIdle /\ UtilIdle
    /\ ShareIdle
    /\ TUIIdle

NextSetupCLI ==
    /\ SetupCLINext
    /\ UNCHANGED <<fetchVars, resolveVars, cacheVars, utilVars, shareVars,
                 tuiVars>>

SpecSetupCLI == InitSetupCLI /\ [][NextSetupCLI]_vars

\* Key presses on the setup TUI.
InitTUI ==
    /\ TUIInit /\ FetchIdle /\ ResolveIdle /\ StoreIdle /\ CacheIdle
    /\ UtilIdle /\ ShareIdle /\ SetupIdle

NextTUI ==
    /\ TUINext
    /\ UNCHANGED <<fetchVars, resolveVars, storeVars, cacheVars, utilVars,
                   shareVars, setupVars>>

SpecTUI == InitTUI /\ [][NextTUI]_vars

\* ------------------------------------------------------------------------
\* Properties of FetchAllUsage
\* ------------------------------------------------------------------------

\* The index of the task an entry stems from: the vendor response and the
\* error of call idx both carry idx.
EntryTag(e) == IF e.Error # <<>> THEN e.Error[2] ELSE e.Windows[1].Label

\* C1: whatever the completion order of the tasks, the entries of the
\* returned UsageStats appear in the order of the instance list: the entry
\* of instance i precedes the entry of instance j whenever i < j.
C1_ResultInInstanceOrder ==
    mainpc = "returned" =>
        \A a, b \in 1 .. Len(result) :
            a < b => EntryTag(result[a]) < EntryTag(result[b])

\* Some task wrote its slot before a task of lower index did, and the
\* function returned at least two entries.
C1_Witness ==
    /\ mainpc = "returned"
    /\ outOfOrder
    /\ Len(result) >= 2

\* The instances are resolved ones: built on an adapter with an id.
AllResolved == \A i \in Tasks : providers[i].id # ""

\* C2: with N resolved instances, whatever subset of the GetUsage calls
\* fails, the result has exactly N entries; the entry of a failed instance
\* has its error set and no windows, the entry of a successful instance has
\* its windows and no error.
C2_PartialFailure ==
    (mainpc = "returned" /\ AllResolved) =>
        /\ Len(result) = N
        /\ \A i \in Tasks :
             /\ result[i].Provider = providers[i].id
             /\ outcome[i] = "err" =>
                  /\ result[i].Error # <<>>
                  /\ result[i].Error[2] = i
                  /\ result[i].Windows = <<>>
             /\ outcome[i] = "ok" =>
                  /\ result[i].Error = <<>>
                  /\ result[i].Windows = << [Label |-> i, Utilization |-> 0] >>

\* Three resolved instances, the second one failed, the other two did not.
C2_Witness ==
    /\ mainpc = "returned"
    /\ AllResolved
    /\ N = 3
    /\ outcome[1] = "ok" /\ outcome[2] = "err" /\ outcome[3] = "ok"
    /\ Len(result) = 3

\* C3: every slot is written at most once and only by the task of its
\* index, and the filter and the return happen only when every launched
\* task has written its slot and finished.
C3_WriteOnceBeforeJoin ==
    /\ \A s \in Tasks :
         /\ Len(writers[s]) <= 1
         /\ \A k \in 1 .. Len(writers[s]) : writers[s][k] = s
    /\ mainpc \in {"filter", "returned"} =>
         \A i \in Tasks : pc[i] = "done" /\ writers[i] = <<i>>

\* The function returned after three tasks, which finished out of order.
C3_Witness ==
    /\ mainpc = "returned"
    /\ N = 3
    /\ outOfOrder

\* C4: the mutex is held only for a slot write (between Lock and Unlock),
\* never by a task inside GetUsage; a task inside GetUsage leaves the mutex
\* to the others.
C4_MutexOnlyAroundWrite ==
    /\ mu # 0 => pc[mu] \in {"errWrite", "okWrite", "unlock"}
    /\ \A i \in Tasks :
         pc[i] \in {"idle", "GetUsage", "inject", "errLock", "okLock",
                    "wgDone", "done"} => mu # i

\* A task is still inside GetUsage while a task launched after it has
\* written its slot and finished.
C4_Witness ==
    \E i, j \in Tasks :
        /\ i < j
        /\ pc[i] = "GetUsage"
        /\ pc[j] = "done"
        /\ writers[j] = <<j>>

\* Under FairSpec, every task that is past GetUsage writes its slot and
\* finishes, however long the other tasks stay inside GetUsage.
PastGetUsageCompletes ==
    \A i \in 1 .. MaxInstances :
        (i \in Tasks /\ pc[i] \in {"inject", "errLock", "okLock", "errWrite",
                                    "okWrite", "unlock", "wgDone"})
            ~> (i \in Tasks /\ pc[i] = "done")

\* C5: every entry of the returned UsageStats carries a non-empty provider
\* id.
C5_NoEmptyProviderID ==
    mainpc = "returned" =>
        \A k \in 1 .. Len(result) : result[k].Provider # ""

\* A slot with an empty provider id was dropped, another entry was kept.
C5_Witness ==
    /\ mainpc = "returned"
    /\ \E i \in Tasks : slots[i].Provider = ""
    /\ Len(result) >= 1
    /\ Len(result) < N

\* ------------------------------------------------------------------------
\* Properties of the resolution
\* ------------------------------------------------------------------------

\* The provider ids GetProviders was asked for.
RequestedIDs ==
    IF providerFlag \in { <<Tok("all")>>, <<Tok("")>> }
    THEN IF \A id \in {"claude", "kimi", "minimax", "zai"} :
               store[id].file = "absent"
         THEN {"claude"}
         ELSE { id \in {"claude", "kimi", "minimax", "zai"} :
                  store[id].file # "absent" }
    ELSE { providerFlag[i].word : i \in 1 .. Len(providerFlag) }

\* The resolved instances of one provider, in order.
InstancesOf(id) == SelectSeq(resolved.list, LAMBDA inst : inst.id = id)

\* The account names of a stored document: the keys of its accounts
\* mapping, else the implicit "default" of its legacy credential.
DocAccountNames(doc, hasLegacy) ==
    IF ~doc.AccountsNil THEN DOMAIN doc.Accounts
    ELSE IF hasLegacy THEN {"default"}
    ELSE {}

\* The stored document of a single-source vendor loads and validates.
Loadable(id) ==
    /\ store[id].file = "ok"
    /\ \A ord \in MapOrders :
         CASE id = "kimi"    -> KimiValidate(store.kimi, ord) = "ok"
           [] id = "zai"     -> ZAiValidate(store.zai, ord) = "ok"
           [] id = "minimax" -> MiniMaxValidate(store.minimax, ord) = "ok"
           [] id = "claude"  -> ClaudeValidate(store.claude, ord) = "ok"

HasLegacy(id) ==
    CASE id = "kimi"    -> store.kimi.APIKey # ""
      [] id = "zai"     -> store.zai.APIKey # ""
      [] id = "minimax" -> store.minimax.Cookie # ""
      [] id = "claude"  -> ~store.claude.ClaudeAiOauth.null

\* The statement of C6 for one vendor.
C6_For(id) ==
    (rpc = "done" /\ ~resolved.panic /\ id \in RequestedIDs /\ Loadable(id))
    => LET names == DocAccountNames(store[id], HasLegacy(id))
           insts == InstancesOf(id)
       IN  IF allAccounts \/ accountFlag = ""
           THEN /\ Len(insts) = Cardinality(names)
                /\ { insts[i].account : i \in 1 .. Len(insts) } = names
           ELSE IF accountFlag \in names
           THEN /\ Len(insts) = 1
                /\ insts[1].account = accountFlag
           ELSE insts = <<>>

\* C6: for Kimi, Z.AI and MiniMax with a loadable document: with
\* all_accounts set or an empty account filter the resolved instances are
\* exactly the accounts list_accounts reports, one per name; otherwise
\* exactly one instance named account_filter when that account exists, and
\* none when it does not.
C6_SingleSourceResolution ==
    C6_For("kimi") /\ C6_For("zai") /\ C6_For("minimax")

\* C7: GetAccount with a non-empty name that is not a key of the accounts
\* mapping returns nil, for the Kimi and the Claude document, and never
\* another account's or the legacy credential.
C7_GetAccountExactOrNil ==
    (rpc = "done" /\ accountFlag # "") =>
        \A ord \in MapOrders :
            /\ (store.kimi.file = "ok"
                /\ accountFlag \notin DocAccountNames(store.kimi, FALSE))
               => KimiGetAccount(store.kimi, accountFlag, ord).null
            /\ (store.claude.file = "ok"
                /\ accountFlag \notin DocAccountNames(store.claude, FALSE))
               => ClaudeGetAccount(store.claude, accountFlag, ord).null

\* The legacy external credential is present and unexpired.
LegacyContributes ==
    /\ keychain.file = "ok"
    /\ ~keychain.ClaudeAiOauth.null
    /\ keychain.ClaudeAiOauth.AccessToken # ""
    /\ keychain.ClaudeAiOauth.ExpiresAt >= NowMs

\* The credential the Claude store holds under an account name.
ClaudeStored(name) ==
    IF ~store.claude.AccountsNil THEN store.claude.Accounts[name]
    ELSE store.claude.ClaudeAiOauth

\* C8: Claude resolution with an empty account filter: the legacy external
\* credential is included as "default" when present and unexpired; every
\* unexpired account of the store is included too, except an account named
\* "default" when the legacy source has contributed its "default" entry;
\* the list never has two "default" instances.
C8_DualSourceResolution ==
    (rpc = "done" /\ ~resolved.panic /\ "claude" \in RequestedIDs
     /\ accountFlag = "")
    => LET insts == InstancesOf("claude")
           has(name, token) ==
               \E i \in 1 .. Len(insts) :
                   /\ insts[i].account = name
                   /\ insts[i].secret = <<token>>
       IN  /\ LegacyContributes
                => has("default", keychain.ClaudeAiOauth.AccessToken)
           /\ Loadable("claude") =>
                \A name \in DocAccountNames(store.claude, HasLegacy("claude")) :
                    (/\ ClaudeStored(name).ExpiresAt >= NowMs
                     /\ ~(name = "default" /\ LegacyContributes))
                    => has(name, ClaudeStored(name).AccessToken)
           /\ Cardinality({ i \in 1 .. Len(insts) :
                              insts[i].account = "default" }) <= 1

\* The access tokens of the stored Claude credentials that have expired.
ExpiredTokens ==
    LET creds == { keychain.ClaudeAiOauth, store.claude.ClaudeAiOauth }
                 \cup { store.claude.Accounts[n] :
                        n \in DOMAIN store.claude.Accounts }
    IN  { c.AccessToken : c \in { x \in creds : ~x.null
                                                /\ x.ExpiresAt < NowMs } }

\* C9: whatever the flags and the stored credentials, no resolved Claude
\* instance was built from an expired token.
C9_NoExpiredClaudeInstance ==
    (rpc = "done" /\ ~resolved.panic) =>
        \A i \in 1 .. Len(resolved.list) :
            resolved.list[i].id = "claude"
            => resolved.list[i].secret[1] \notin ExpiredTokens

\* The store holds an expired and an unexpired account, and exactly the
\* unexpired one was resolved.
C9_Witness ==
    /\ rpc = "done"
    /\ ~resolved.panic
    /\ accountFlag = ""
    /\ ~store.claude.AccountsNil
    /\ DOMAIN store.claude.Accounts = {"default", "work"}
    /\ "key-default" \in ExpiredTokens
    /\ InstancesOf("claude") = <<Instance("claude", "work", <<"key-work">>)>>

\* C10: resolution never fails, and a requested provider without a
\* loadable credential document contributes no instance.
C10_ResolutionNeverFails ==
    rpc = "done" =>
        /\ ~resolved.panic
        /\ \A id \in {"kimi", "zai", "minimax"} :
             ~Loadable(id) => InstancesOf(id) = <<>>
        /\ (~Loadable("claude") /\ KeychainErr(keychain))
             => InstancesOf("claude") = <<>>

\* ------------------------------------------------------------------------
\* Properties of the credential files
\* ------------------------------------------------------------------------

\* C11: ListAccounts lists the names of the accounts mapping when the
\* document holds accounts, otherwise exactly "default" when it holds a
\* legacy key, otherwise nothing.
C11_ListAccounts ==
    (lastOp.name = "ListAccounts" /\ lastOp.err = "") =>
        LET doc == credFiles.kimi
            listed == { lastOp.names[i] : i \in DOMAIN lastOp.names }
        IN  IF DOMAIN doc.Accounts # {}
            THEN /\ listed = DOMAIN doc.Accounts
                 /\ Len(lastOp.names) = Cardinality(listed)
            ELSE IF doc.APIKey # "" THEN lastOp.names = <<"default">>
            ELSE lastOp.names = <<>>

\* C16: a SaveProvider that fails leaves kimi.json holding either the
\* complete previous document or the complete new one.
C16_SaveAtomic ==
    (lastOp.name = "SaveProvider" /\ lastOp.err # "") =>
        credFiles.kimi \in { before.files.kimi, MarshalKimi(lastOp.data) }

\* C17: MigrateFromClaudeCLI fails when the Claude CLI file is missing or
\* claude.json already exists, and then changes neither the files nor the
\* config directory.
C17_MigrateRefuses ==
    (/\ lastOp.name = "MigrateFromClaudeCLI"
     /\ \/ before.files.cli.file = "absent"
        \/ before.files.claude.file # "absent") =>
        /\ lastOp.err # ""
        /\ credFiles = before.files
        /\ configDir = before.dir

\* A migration was refused because claude.json was there, and it still
\* holds what it held.
C17_Witness ==
    /\ lastOp.name = "MigrateFromClaudeCLI"
    /\ before.files.cli.file = "ok"
    /\ before.files.claude = LegacyClaudeDoc
    /\ lastOp.err = "new credentials already exist"
    /\ credFiles.claude = LegacyClaudeDoc

\* ------------------------------------------------------------------------
\* Properties of the cache and of the adapters' subscription lookup
\* ------------------------------------------------------------------------

\* C12: Get on a key whose file is missing, is not a parseable entry, or
\* is past its expiry reports a miss and returns no error.
C12_GetMissNoError ==
    (/\ cacheLast.op = "Get"
     /\ \/ cacheLast.had.kind \in {"absent", "garbage"}
        \/ /\ cacheLast.had.kind = "entry"
           /\ \/ cacheLast.had.data.json # "object"
              \/ cacheLast.at > cacheLast.had.expiresAt) =>
        (~cacheLast.found /\ cacheLast.err = "")

C14_DistinctKeys ==
    \A i, j \in DOMAIN cacheKeys :
        (cacheKeys[i] # NoKey /\ cacheKeys[j] # NoKey) =>
            (cacheKeys[i] = cacheKeys[j]
               <=> cacheAdapters[i].secret = cacheAdapters[j].secret)

\* C15: when the usage call succeeds GetUsage returns a Usage without
\* error, whatever the cache holds and however the subscription call and
\* the cache write end; the subscription annex is missing only when the
\* subscription call failed.
C15_SecondaryNonFatal ==
    (cacheLast.op = "GetUsage" /\ cacheLast.primary) =>
        /\ cacheLast.err = ""
        /\ cacheLast.usage.Provider = cacheAdapters[1].vendor
        /\ cacheLast.usage.Windows = <<>>
        /\ cacheLast.usage.Error = <<>>
        /\ \A kv \in cacheLast.usage.Extra : kv[1] = "subscription"
        /\ Cardinality(cacheLast.usage.Extra) <= 1
        /\ cacheLast.usage.Extra = {} => ~cacheLast.api

\* The usage call succeeded, the cache had nothing and the subscription
\* call failed: a Usage without annex came back.
C15_Witness ==
    /\ cacheLast.op = "GetUsage"
    /\ cacheLast.primary
    /\ ~cacheLast.api
    /\ cacheLast.err = ""
    /\ cacheLast.usage.Error = <<>>
    /\ cacheLast.usage.Extra = {}

\* ------------------------------------------------------------------------
\* Properties of the normalisation and of the status bar output
\* ------------------------------------------------------------------------

\* The windows of the entries without error, as <<entry, window>> indexes.
ReportedWindows ==
    UNION { { <<i, j>> : j \in DOMAIN stats[i].Windows } :
            i \in { k \in DOMAIN stats : stats[k].Error = <<>> } }

WindowAt(ij) == stats[ij[1]].Windows[ij[2]]

\* C18: a Kimi window has utilization used/limit*100 (not a number when
\* limit is 0) and remaining limit - used; a MiniMax window has utilization
\* (total - used)/total*100 when total > 0 and 0 otherwise.
C18_UtilizationFormula ==
    \A ij \in ReportedWindows :
        LET w == WindowAt(ij)
            limit == w.Limit.n
            used == w.Used.n
            u == w.Utilization
        IN  IF stats[ij[1]].Provider = "kimi"
            THEN /\ limit # 0 =>
                      (u.kind = "fin" /\ u.n * limit = used * 100 * u.d)
                 /\ limit = 0 => u.kind # "fin"
                 /\ w.Remaining = Float(limit - used)
            ELSE IF limit > 0
                 THEN u.kind = "fin"
                      /\ u.n * limit = (limit - used) * 100 * u.d
                 ELSE u = Float(0)

\* Kimi answered limit 100, used 37 and MiniMax total 100, used 80: the
\* windows say 37 (63 remaining) and 20.
C18_Witness ==
    \E i \in DOMAIN stats, k \in DOMAIN stats :
        /\ stats[i].Provider = "kimi" /\ stats[i].Windows # <<>>
        /\ stats[i].Windows[1].Limit = Float(100)
        /\ stats[i].Windows[1].Used = Float(37)
        /\ stats[i].Windows[1].Utilization = Float(37)
        /\ stats[i].Windows[1].Remaining = Float(63)
        /\ stats[k].Provider = "minimax" /\ stats[k].Windows # <<>>
        /\ stats[k].Windows[1].Limit = Float(100)
        /\ stats[k].Windows[1].Used = Float(80)
        /\ stats[k].Windows[1].Utilization = Float(20)

\* C19: every window has a utilization between 0 and 100, and the
\* percentage of the status bar is an integer between 0 and 100.
C19_UtilizationInRange ==
    /\ \A ij \in ReportedWindows :
         LET u == WindowAt(ij).Utilization
         IN  u.kind = "fin" /\ u.n >= 0 /\ u.n <= 100 * u.d
    /\ opc = "done" =>
         (waybar.Percentage.sat = "" /\ waybar.Percentage.int \in 0 .. 100)

\* C20: MaxUtilization is the largest utilization among the windows of the
\* entries without error, 0 when there is no such window, and the class
\* written is "critical" from 90, "warning" from 75 and "normal" below.
C20_MaxAndClass ==
    LET utils == { WindowAt(ij).Utilization : ij \in ReportedWindows }
        maxUtil == MaxUtilization(stats)
    IN  /\ IF utils = {} THEN maxUtil = Float(0)
           ELSE maxUtil \in utils /\ \A u \in utils : FGe(maxUtil, u)
        /\ opc = "done" =>
             waybar.Class =
                 IF FGe(maxUtil, Float(90)) THEN "critical"
                 ELSE IF FGe(maxUtil, Float(75)) THEN "warning"
                 ELSE "normal"

\* ------------------------------------------------------------------------
\* Properties of the fetch tasks' sharing
\* ------------------------------------------------------------------------

\* C21: a task that is about to inject the account name into
\* usage.Extra["account"] holds the mutex, so that the injection and the
\* write of the slot are one critical section.
C21_InjectUnderLock ==
    \A i \in Tasks :
        (pc[i] = "inject" /\ providers[i].account # "") => mu = i

\* C22: outside the slot array no location is read or written by two tasks
\* of one call: every file of the cache directory is used by one task at
\* most.
C22_NoSharedLocation ==
    \A k \in CacheKeys : Cardinality(touched[k]) <= 1

\* ------------------------------------------------------------------------
\* Properties of the cache clear and of the subscription lifecycle
\* ------------------------------------------------------------------------

C24_LookupLifecycle ==
    [][(now' = now /\ cacheLast'.op = "GetUsage") =>
         LET key == cacheLast'.key
             had == Get(cacheFiles, key, now)
         IN  /\ cacheLast'.called => ~(had.err = "" /\ had.found)
             /\ (cacheFiles'[key] # cacheFiles[key]
                   /\ cacheFiles'[key].kind = "entry") =>
                  (cacheLast'.called /\ cacheLast'.api)
             /\ (cacheLast.op = "GetUsage" /\ cacheLast.key = key
                   /\ cacheLast.called /\ cacheLast.api
                   /\ now <= cacheLast.at + subscriptionCacheTTL) =>
                  ~cacheLast'.called
             /\ (cacheLast'.called /\ ~cacheLast'.api) =>
                  cacheFiles' = had.files
             /\ (cacheLast.op = "GetUsage" /\ cacheLast.key = key
                   /\ cacheLast.called /\ ~cacheLast.api
                   /\ cacheLast'.primary) =>
                  cacheLast'.called]_vars

\* C24, amended: as above, but it is the lookup whose cache write stored the
\* entry that is not repeated: while the entry of the last Set on the key is
\* within its TTL no GetUsage calls client.GetSubscription; a lookup whose
\* cache write failed left no usable entry and the next GetUsage calls again.
C24_LookupLifecycleStored ==
    [][(now' = now /\ cacheLast'.op = "GetUsage") =>
         LET key == cacheLast'.key
             had == Get(cacheFiles, key, now)
             left == Get(cacheFiles', key, now')
         IN  /\ cacheLast'.called => ~(had.err = "" /\ had.found)
             /\ (cacheFiles'[key] # cacheFiles[key]
                   /\ cacheFiles'[key].kind = "entry") =>
                  (cacheLast'.called /\ cacheLast'.api)
             /\ (lastSet.set /\ lastSet.key = key
                   /\ now <= lastSet.at + lastSet.ttl) =>
                  ~cacheLast'.called
             /\ (cacheLast'.called /\ ~cacheLast'.api) =>
                  (cacheFiles' = had.files
                     /\ ~(left.err = "" /\ left.found))
             /\ (cacheLast'.called /\ cacheLast'.api
                   /\ cacheLast'.how # "ok") =>
                  ~(left.err = "" /\ left.found)
             /\ (cacheLast.op = "GetUsage" /\ cacheLast.key = key
                   /\ cacheLast.called
                   /\ (~cacheLast.api \/ cacheLast.how # "ok")
                   /\ cacheLast'.primary) =>
                  cacheLast'.called]_vars

\* A GetUsage later than the lookup that stored the entry, still within the
\* TTL, answered from the cache without a call of client.GetSubscription.
C24_Witness ==
    /\ cacheLast.op = "GetUsage"
    /\ cacheLast.primary
    /\ ~cacheLast.called
    /\ lastSet.set
    /\ lastSet.key = cacheLast.key
    /\ lastSet.at < cacheLast.at
    /\ cacheLast.at <= lastSet.at + lastSet.ttl
    /\ cacheLast.usage.Extra = {<<"subscription", lastSet.value>>}

\* ------------------------------------------------------------------------
\* Properties of the resolution without provider filter
\* ------------------------------------------------------------------------

\* C25: with the provider filter empty or "all" (and no account filter), a
\* present and unexpired credential of the legacy external Claude source is
\* in the resolved list as the "default" Claude instance, whatever documents
\* the store holds.
C25_LegacyClaudeResolved ==
    (/\ rpc = "done"
     /\ ~resolved.panic
     /\ providerFlag \in { <<Tok("all")>>, <<Tok("")>> }
     /\ accountFlag = ""
     /\ LegacyContributes) =>
        \E i \in 1 .. Len(resolved.list) :
            /\ resolved.list[i].id = "claude"
            /\ resolved.list[i].account = "default"
            /\ resolved.list[i].secret = <<keychain.ClaudeAiOauth.AccessToken>>

\* ------------------------------------------------------------------------
\* Properties of the setup commands
\* ------------------------------------------------------------------------

\* The account names ListAccounts reports for a document.
Listed(doc) ==
    UNION { { KimiListAccounts(doc, ord)[i] :
                i \in 1 .. Len(KimiListAccounts(doc, ord)) } :
            ord \in MapOrders }

\* The document loads, in whatever order its accounts are visited.
Loads(doc) ==
    \A ord \in MapOrders : LoadProvider(doc.file, KimiValidate(doc, ord)) = "ok"

\* C26: an add that succeeded, by the CLI or by the TUI, under a name the
\* loadable document did not list, leaves every account listed before in
\* the list, with the credential it had.
C26_AddKeepsAccounts ==
    LET old == before.files.kimi
        new == credFiles.kimi
    IN  (/\ setupOp.op \in {"AddAccount", "saveAccount"}
         /\ setupOp.err = ""
         /\ Loads(old)
         /\ setupOp.account \notin Listed(old)) =>
            \A n \in Listed(old) :
                /\ n \in Listed(new)
                /\ \A ord \in MapOrders :
                     KimiGetAccount(new, n, ord) = KimiGetAccount(old, n, ord)

\* C27: for a remove, by the CLI or by the TUI, of an account the loadable
\* document listed, RemoveAccount and doRemoveAccount end the same way on
\* that document: both without error or both with one, and with the same
\* file afterwards, which is the file as it was when they fail before
\* writing.
C27_RemoveFlowsAgree ==
    LET old == before.files.kimi
        dir == before.dir
        n == setupOp.account
    IN  (/\ setupOp.op \in {"RemoveAccount", "doRemoveAccount"}
         /\ Loads(old)
         /\ n \in Listed(old)) =>
            \A ord \in MapOrders, os \in OSOutcomes :
                LET byCLI == removeKimiAccount(old, dir, n, ord, os)
                    byTUI == doRemoveAccount(old, dir, n, ord, os)
                IN  /\ (byCLI.err = "") <=> (byTUI.err = "")
                    /\ byCLI.file = byTUI.file
                    /\ (byCLI.err # "" /\ os.w # "write") => byCLI.file = old

\* C28: from a store without files, after any sequence of CLI add, remove
\* and rename commands: kimi.json, when it exists, loads and lists at least
\* one account; a remove of the last account deleted it; a remove or a
\* rename that failed on an unknown account or on a name already taken left
\* the file as it was.
C28_StoredDocumentValid ==
    LET old == before.files.kimi
        new == credFiles.kimi
    IN  /\ new.file # "absent" => (Loads(new) /\ Listed(new) # {})
        /\ (/\ setupOp.op = "RemoveAccount"
            /\ setupOp.err = ""
            /\ Listed(old) = {setupOp.account}) => new.file = "absent"
        /\ (/\ setupOp.op \in {"RemoveAccount", "RenameAccount"}
            /\ setupOp.err \in {"account not found", "account already exists"})
             => new = old

\* ------------------------------------------------------------------------
\* Properties of the setup TUI
\* ------------------------------------------------------------------------

\* C29: no character typed on the API-key screen is written in clear by
\* View(): the input shown by the account-name screen holds none, whatever
\* keys led to the screen, and neither does the success message.
C29_KeyNeverShown ==
    /\ tui.screen = "AddAccountName" =>
         \A i \in DOMAIN tui.inputText : tui.inputText[i].on # "AddAPIKey"
    /\ \A i \in DOMAIN ShownInClear(tui) :
         ShownInClear(tui)[i].on # "AddAPIKey"

\* C30: on the account-name and the API-key screen, the press of a key that
\* carries a character appends the character to the input and leaves the
\* screen as it is.
C30_RunesAreInput ==
    [][(pressed' \in Runes /\ tui.screen \in {"AddAccountName", "AddAPIKey"})
         => /\ tui'.screen = tui.screen
            /\ tui'.inputText = Append(tui.inputText,
                                       Typed(pressed', tui.screen))]_vars

====
